---- MODULE Spec2Model ----
(***************************************************************************)
(* Per-pixel model of the MODIS glacier-albedo retrieval code:             *)
(*   python_version/utils/quality_filters.py   (MOD09 quality decoder,     *)
(*                                              filter presets)            *)
(*   python_version/methods/mod10a1_method.py  (snow-cover decoder)        *)
(*   python_version/methods/mcd43a3_method.py  (BRDF/albedo decoder)       *)
(*   python_version/methods/ren_method.py      (Ren retrieval pipeline)    *)
(*   python_version/workflows/comparison.py    (collection workflow)       *)
(*   python_version/utils/export_utils.py      (per-image statistics)      *)
(*                                                                         *)
(* An image is modelled at one pixel: a function from band names to pixel  *)
(* values, a pixel value being [ok, v] with ok = FALSE for a masked pixel. *)
(* The raster algebra follows the Earth Engine operations the code calls:  *)
(* a binary operation is masked where either operand is masked, updateMask *)
(* can only remove pixels, where() keeps the mask of its input, divide     *)
(* returns 0 on a zero divisor.                                            *)
(***************************************************************************)
EXTENDS Integers, Sequences, FiniteSets, TLC

VARIABLES
    pc,             \* position of the call being executed
    image,          \* the input image at one pixel: band name -> pixel value
    relaxed_qa,     \* the relaxed / relaxed_qa argument
    custom_params,  \* quality_filter_mod09a1's custom_params (empty = None)
    params,         \* the parameter set quality_filter_mod09a1 applied
    qa_config,      \* MOD10A1 policy handed to create_comprehensive_quality_mask
    preset_name,    \* argument of create_relaxed_filter_preset
    preset,         \* value returned by create_relaxed_filter_preset
    quality_mask,   \* mask computed by a MOD10A1 / MCD43A3 decoder
    filtered,       \* image after the quality filter
    error,          \* "none", or the exception a call ended with
    terrain,        \* slope and aspect of the DEM at the pixel (0.01 degree)
    glacier,        \* glacier-mask function handed in, and glacier fraction (%)
    topo_img,       \* process_ren_method: image after topography_correction
    classified,     \* ... after classify_snow_ice
    nb_snow,        \* ... after the snow BRDF model
    nb_ice,         \* ... after the ice BRDF model
    with_nb,        \* ... with the merged narrow-band albedos
    with_bb,        \* ... with the broadband albedos
    result,         \* the image process_ren_method returns
    method_name,    \* run_modular_comparison: the selected method
    processor,      \* which per-image function is mapped over the collection
    list_eval,      \* how the server evaluates collection_list.get(i)
    collection,     \* the filtered input collection (sequence of images)
    results,        \* results[method]: mapped collection, or None
    image_index,    \* loop variable i of _process_method_collection
    stats_list,     \* rows collected by _process_method_collection
    brdf_surface,   \* apply_brdf_anisotropic_correction's surface_type
    glacier_mask_raw, \* the mask create_glacier_mask returned
    glacier_filtered,   \* filter_glacier_pixels applied to the input image
    glacier_refiltered, \* filter_glacier_pixels applied to glacier_filtered
    heap,           \* the dictionaries and lists alive in the Python process
    held_preset,    \* the caller's reference to a returned preset (0 = None)
    first_preset,   \* preset name -> the values its first call returned
    calls,          \* number of calls the caller has made
    workers,        \* worker -> the locals of its process_ren_method call
    df,             \* collapse_terra_aqua: the input table (sequence of rows)
    df_sorted,      \* ... sorted by pixel_count, largest first
    collapsed,      \* ... the table returned
    methods,        \* run_modular_comparison: the methods argument
    env_failures,   \* methods whose collection cannot be built (Earth Engine error)
    results_dict,   \* the local `results`: method -> "collection" or "None"
    propagated,     \* the exception run_modular_comparison ends with, or "none"
    tasks,          \* monitor_export_tasks: the state of each task at Earth Engine
    task_index,     \* ... the tasks polled so far in the current round
    all_complete,   \* ... the local all_complete
    observed        \* ... the states printed in the current round

qaVars == <<custom_params, params, qa_config, preset_name, preset, quality_mask>>

renVars == <<terrain, glacier, topo_img, classified, nb_snow, nb_ice, with_nb,
             with_bb, result, brdf_surface, glacier_mask_raw>>

flowVars == <<method_name, processor, list_eval, collection, results, image_index,
              stats_list>>

\* the Python objects of the process, as a caller of the package sees them
moduleVars == <<heap, held_preset, first_preset, calls>>

\* variables of the utility functions (glacier_utils.py) and of the callers
\* variables of scripts/reproduce_albedo_comparison.py
scriptVars == <<df, df_sorted, collapsed>>

\* variables of run_modular_comparison over all the selected methods
comparisonVars == <<methods, env_failures, results_dict, propagated>>

\* variables of monitor_export_tasks
monitorVars == <<tasks, task_index, all_complete, observed>>

utilVars == <<glacier_filtered, glacier_refiltered, moduleVars, workers, scriptVars,
              comparisonVars, monitorVars>>

vars == <<pc, image, relaxed_qa, filtered, error, qaVars, renVars, flowVars,
          utilVars>>

\* ------------------------------------------------------------------------
\* Raster algebra at one pixel
\* ------------------------------------------------------------------------

Px(x) == [ok |-> TRUE, v |-> x]

MaskedPx == [ok |-> FALSE, v |-> 0]

Bool01(b) == IF b THEN 1 ELSE 0

\* ee.Image.And: 1 where both operands are non-zero, masked where either is masked
And(a, b) ==
    IF a.ok /\ b.ok THEN Px(Bool01(a.v # 0 /\ b.v # 0)) ELSE MaskedPx

Lte(a, k) == IF a.ok THEN Px(Bool01(a.v <= k)) ELSE MaskedPx
Lt(a, k) == IF a.ok THEN Px(Bool01(a.v < k)) ELSE MaskedPx
Gt(a, k) == IF a.ok THEN Px(Bool01(a.v > k)) ELSE MaskedPx
Gte(a, k) == IF a.ok THEN Px(Bool01(a.v >= k)) ELSE MaskedPx
Eq(a, k) == IF a.ok THEN Px(Bool01(a.v = k)) ELSE MaskedPx
Neq(a, k) == IF a.ok THEN Px(Bool01(a.v # k)) ELSE MaskedPx
Add(a, b) == IF a.ok /\ b.ok THEN Px(a.v + b.v) ELSE MaskedPx

RECURSIVE BitAnd(_, _)
BitAnd(x, y) ==
    IF x = 0 \/ y = 0 THEN 0
    ELSE ((x % 2) * (y % 2)) + 2 * BitAnd(x \div 2, y \div 2)

RECURSIVE Pow2(_)
Pow2(n) == IF n = 0 THEN 1 ELSE 2 * Pow2(n - 1)

bitwiseAnd(a, k) == IF a.ok THEN Px(BitAnd(a.v, k)) ELSE MaskedPx

rightShift(a, n) == IF a.ok THEN Px(a.v \div Pow2(n)) ELSE MaskedPx

\* image.updateMask(mask): a pixel stays only where it was unmasked and the
\* mask is unmasked and non-zero; applied to every band of the image
updateMask(img, mask) ==
    [b \in DOMAIN img |->
        IF img[b].ok /\ mask.ok /\ mask.v # 0 THEN img[b] ELSE MaskedPx]

\* ------------------------------------------------------------------------
\* quality_filters.py: quality_filter_mod09a1
\* ------------------------------------------------------------------------

RelaxedParams ==
    [cloud_state_threshold |-> 1, allow_shadow |-> FALSE, cirrus_threshold |-> 0,
     use_internal_cloud |-> FALSE, snow_ice_min |-> 0, solar_zenith_max |-> 75]

StrictParams ==
    [cloud_state_threshold |-> 0, allow_shadow |-> FALSE, cirrus_threshold |-> 0,
     use_internal_cloud |-> TRUE, snow_ice_min |-> 0, solar_zenith_max |-> 70]

\* dict.update: keys of the override replace the defaults
DictUpdate(d, c) ==
    [k \in (DOMAIN d) \cup (DOMAIN c) |-> IF k \in DOMAIN c THEN c[k] ELSE d[k]]

\* lines 77-100: defaults by mode, then `if custom_params: params.update(...)`
Mod09Params(relaxed, custom) ==
    LET base == IF relaxed THEN RelaxedParams ELSE StrictParams
    IN  IF DOMAIN custom # {} THEN DictUpdate(base, custom) ELSE base

\* clear_sky with the threshold taken as exclusive
clear_sky_exclusive(qa, p) == Lt(bitwiseAnd(qa, 3), p.cloud_state_threshold)

clear_sky(qa, p) == Lte(bitwiseAnd(qa, 3), p.cloud_state_threshold)

shadow_free(qa) == Eq(bitwiseAnd(qa, 4), 0)

no_cirrus(qa, p) == Lte(bitwiseAnd(qa, 256), p.cirrus_threshold)

clear_internal(qa) == Eq(bitwiseAnd(qa, 1024), 0)

\* valid_snow_ice with the comparison reversed
valid_snow_ice_reversed(qa, p) ==
    Lt(rightShift(bitwiseAnd(qa, 12288), 12), p.snow_ice_min)

valid_snow_ice(qa, p) == Gt(rightShift(bitwiseAnd(qa, 12288), 12), p.snow_ice_min)

\* SolarZenith is stored in 0.01 degree; multiply(0.01).lt(max) compares degrees
\* the limit taken inclusively
low_sza_inclusive(sz, p) == Lte(sz, 100 * p.solar_zenith_max)

low_sza(sz, p) == Lt(sz, 100 * p.solar_zenith_max)

Mod09Mask(img, p) ==
    LET qa == img["state_1km"]
        m0 == And(And(And(clear_sky(qa, p), no_cirrus(qa, p)),
                      valid_snow_ice(qa, p)),
                  low_sza(img["SolarZenith"], p))
        m1 == IF ~p.allow_shadow THEN And(m0, shadow_free(qa)) ELSE m0
    IN  IF p.use_internal_cloud THEN And(m1, clear_internal(qa)) ELSE m1

quality_filter_mod09a1(img, relaxed, custom) ==
    updateMask(img, Mod09Mask(img, Mod09Params(relaxed, custom)))

\* ------------------------------------------------------------------------
\* quality_filters.py: create_relaxed_filter_preset
\* ------------------------------------------------------------------------

ModeratePreset ==
    [cloud_state_threshold |-> 1, allow_shadow |-> FALSE, cirrus_threshold |-> 1,
     use_internal_cloud |-> TRUE, snow_ice_min |-> 0, solar_zenith_max |-> 80]

MaximumPreset ==
    [cloud_state_threshold |-> 2, allow_shadow |-> FALSE, cirrus_threshold |-> 2,
     use_internal_cloud |-> FALSE, snow_ice_min |-> -1, solar_zenith_max |-> 85]

GlacierOptimizedPreset ==
    [cloud_state_threshold |-> 1, allow_shadow |-> FALSE, cirrus_threshold |-> 0,
     use_internal_cloud |-> FALSE, snow_ice_min |-> 0, solar_zenith_max |-> 75]

presets ==
    [moderate |-> ModeratePreset, maximum |-> MaximumPreset,
     glacier_optimized |-> GlacierOptimizedPreset]

\* dict.get(key, default)
DictGet(d, k, default) == IF k \in DOMAIN d THEN d[k] ELSE default

create_relaxed_filter_preset(name) == DictGet(presets, name, presets["moderate"])

\* ------------------------------------------------------------------------
\* mod10a1_method.py: QA_CONFIG, get_basic_qa_mask, get_algorithm_flags_mask,
\* create_comprehensive_quality_mask
\* ------------------------------------------------------------------------

Mod10Standard ==
    [basicLevel |-> "good", excludeInlandWater |-> TRUE,
     excludeVisibleScreenFail |-> TRUE, excludeNDSIScreenFail |-> TRUE,
     excludeTempHeightFail |-> TRUE, excludeSWIRAnomaly |-> TRUE,
     excludeProbablyCloudy |-> TRUE, excludeProbablyClear |-> FALSE,
     excludeHighSolarZenith |-> TRUE]

Mod10Relaxed ==
    [basicLevel |-> "ok", excludeInlandWater |-> FALSE,
     excludeVisibleScreenFail |-> TRUE, excludeNDSIScreenFail |-> TRUE,
     excludeTempHeightFail |-> FALSE, excludeSWIRAnomaly |-> FALSE,
     excludeProbablyCloudy |-> FALSE, excludeProbablyClear |-> FALSE,
     excludeHighSolarZenith |-> FALSE]

BIT_MAPPING ==
    << [flag |-> "excludeInlandWater", bit |-> 0, mask |-> 1],
       [flag |-> "excludeVisibleScreenFail", bit |-> 1, mask |-> 2],
       [flag |-> "excludeNDSIScreenFail", bit |-> 2, mask |-> 4],
       [flag |-> "excludeTempHeightFail", bit |-> 3, mask |-> 8],
       [flag |-> "excludeSWIRAnomaly", bit |-> 4, mask |-> 16],
       [flag |-> "excludeProbablyCloudy", bit |-> 5, mask |-> 32],
       [flag |-> "excludeProbablyClear", bit |-> 6, mask |-> 64],
       [flag |-> "excludeHighSolarZenith", bit |-> 7, mask |-> 128] >>

\* get_basic_qa_mask with every tier one step too strict
get_basic_qa_mask_shifted(img, level) ==
    LET basic_qa == img["NDSI_Snow_Cover_Basic_QA"]
        quality ==
            IF level = "best" THEN Eq(basic_qa, 0)
            ELSE IF level = "good" THEN Eq(basic_qa, 0)
            ELSE IF level = "ok" THEN Lte(basic_qa, 1)
            ELSE IF level = "all" THEN Lte(basic_qa, 2)
            ELSE Lte(basic_qa, 1)
        exclude == And(Neq(basic_qa, 211), Neq(basic_qa, 239))
    IN  And(quality, exclude)

get_basic_qa_mask(img, level) ==
    LET basic_qa == img["NDSI_Snow_Cover_Basic_QA"]
        quality ==
            IF level = "best" THEN Eq(basic_qa, 0)
            ELSE IF level = "good" THEN Lte(basic_qa, 1)
            ELSE IF level = "ok" THEN Lte(basic_qa, 2)
            ELSE IF level = "all" THEN Lte(basic_qa, 3)
            ELSE Lte(basic_qa, 1)
        exclude == And(Neq(basic_qa, 211), Neq(basic_qa, 239))
    IN  And(quality, exclude)

\* ee.Image.uint8(): the value cast to 0..255
uint8(a) ==
    IF a.ok THEN Px(IF a.v < 0 THEN 0 ELSE IF a.v > 255 THEN 255 ELSE a.v)
    ELSE MaskedPx

RECURSIVE FlagsLoop(_, _, _, _)
FlagsLoop(alg_flags, flags, i, mask) ==
    IF i > Len(BIT_MAPPING) THEN mask
    ELSE FlagsLoop(alg_flags, flags, i + 1,
            IF DictGet(flags, BIT_MAPPING[i].flag, FALSE)
            THEN And(mask, Eq(bitwiseAnd(alg_flags, BIT_MAPPING[i].mask), 0))
            ELSE mask)

get_algorithm_flags_mask(img, flags) ==
    FlagsLoop(uint8(img["NDSI_Snow_Cover_Algorithm_Flags_QA"]), flags, 1, Px(1))

\* qa_config None is the empty function
create_comprehensive_quality_mask(img, cfg) ==
    LET c == IF DOMAIN cfg = {} THEN Mod10Standard ELSE cfg
    IN  And(get_basic_qa_mask(img, DictGet(c, "basicLevel", "good")),
            get_algorithm_flags_mask(img, c))

\* ------------------------------------------------------------------------
\* mcd43a3_method.py: create_mcd43a3_quality_mask
\* ------------------------------------------------------------------------

ACCEPT_QA_0_AND_1 == TRUE

REQUIRE_GOOD_BANDS == 1

StandardMinGoodBands == 2

create_mcd43a3_quality_mask(img, relaxed) ==
    LET shortwave_qa == img["BRDF_Albedo_Band_Mandatory_Quality_shortwave"]
        vis_qa == img["BRDF_Albedo_Band_Mandatory_Quality_vis"]
        nir_qa == img["BRDF_Albedo_Band_Mandatory_Quality_nir"]
        good_quality_mask == Lte(bitwiseAnd(shortwave_qa, 1), 1)
        base == IF ACCEPT_QA_0_AND_1 THEN And(Px(1), good_quality_mask) ELSE Px(1)
        vis_good_quality == Lte(bitwiseAnd(vis_qa, 1), 1)
        nir_good_quality == Lte(bitwiseAnd(nir_qa, 1), 1)
        min_good_bands == IF relaxed THEN REQUIRE_GOOD_BANDS ELSE StandardMinGoodBands
        good_bands_count == Add(Add(good_quality_mask, vis_good_quality), nir_good_quality)
    IN  And(base, Gte(good_bands_count, min_good_bands))

\* process_mod10a1_method lines 195-200 / apply_mod10a1_quality_filter
apply_mod10a1_quality_filter(img, cfg) ==
    updateMask(img, create_comprehensive_quality_mask(img, cfg))

\* process_mcd43a3_method lines 164-169
apply_mcd43a3_quality_filter(img, relaxed) ==
    updateMask(img, create_mcd43a3_quality_mask(img, relaxed))

\* ------------------------------------------------------------------------
\* Inputs of the quality decoders
\* ------------------------------------------------------------------------

\* state_1km words: every cloud state, shadow, cirrus level, internal-cloud
\* and snow/ice confidence, on a land pixel (bits 3-5 = 001)
State1kmValues ==
    { c + 4 * s + 8 + 256 * ci + 1024 * ic + 4096 * si :
        c \in 0..3, s \in 0..1, ci \in 0..3, ic \in 0..1, si \in 0..3 }

SolarZenithValues == {3000, 6999, 7000, 7499, 7500, 8200}

CustomParamSets ==
    { <<>>, ModeratePreset, MaximumPreset, GlacierOptimizedPreset,
      ("cloud_state_threshold" :> 2), ("allow_shadow" :> TRUE),
      ("cirrus_threshold" :> 1), ("use_internal_cloud" :> FALSE),
      ("snow_ice_min" :> 1), ("solar_zenith_max" :> 80) }

Mod09Images ==
    { [state_1km |-> Px(q), SolarZenith |-> Px(z), sur_refl_b01 |-> Px(3000)] :
        q \in State1kmValues, z \in SolarZenithValues }

BasicQAValues == {0, 1, 2, 3, 211, 239}

AlgFlagValues == 0..255

Mod10Images ==
    { [NDSI_Snow_Cover_Basic_QA |-> Px(b),
       NDSI_Snow_Cover_Algorithm_Flags_QA |-> Px(f),
       NDSI_Snow_Cover |-> Px(80)] :
        b \in BasicQAValues, f \in AlgFlagValues }

BasicLevels == {"best", "good", "ok", "all"}

Mod10FlagNames == { BIT_MAPPING[i].flag : i \in 1..Len(BIT_MAPPING) }

\* policies handed to the snow-cover decoder: None, the two presets, every
\* tier of both presets, single flags toggled, and an undefined tier name
Mod10Configs ==
    { <<>> }
    \cup { [Mod10Standard EXCEPT !.basicLevel = l] : l \in BasicLevels \cup {"excellent"} }
    \cup { [Mod10Relaxed EXCEPT !.basicLevel = l] : l \in BasicLevels }
    \cup { [Mod10Standard EXCEPT ![f] = ~@] : f \in Mod10FlagNames }

MandatoryQualityValues == {0, 1, 2, 255}

Mcd43Images ==
    { [BRDF_Albedo_Band_Mandatory_Quality_shortwave |-> Px(a),
       BRDF_Albedo_Band_Mandatory_Quality_vis |-> Px(b),
       BRDF_Albedo_Band_Mandatory_Quality_nir |-> Px(c),
       Albedo_BSA_shortwave |-> Px(w)] :
        a \in MandatoryQualityValues, b \in MandatoryQualityValues,
        c \in MandatoryQualityValues, w \in {350, 800} }

PresetNames == {"moderate", "maximum", "glacier_optimized", "strict", "Moderate"}

NoImage == <<>>

\* no utility function has been called
GlacierUtilIdle ==
    /\ glacier_filtered = NoImage
    /\ glacier_refiltered = NoImage

\* the objects of the process are not tracked
ModuleIdle ==
    /\ heap = <<>>
    /\ held_preset = 0
    /\ first_preset = <<>>
    /\ calls = 0

\* no worker pool is running
WorkersIdle == workers = <<>>

\* the comparison script is not running
ScriptIdle ==
    /\ df = <<>>
    /\ df_sorted = <<>>
    /\ collapsed = <<>>

\* run_modular_comparison is not tracked method by method
ComparisonIdle ==
    /\ methods = <<>>
    /\ env_failures = {}
    /\ results_dict = <<>>
    /\ propagated = "none"

\* monitor_export_tasks is not running
MonitorIdle ==
    /\ tasks = <<>>
    /\ task_index = 0
    /\ all_complete = TRUE
    /\ observed = <<>>

UtilIdle ==
    /\ GlacierUtilIdle
    /\ ModuleIdle
    /\ WorkersIdle
    /\ ScriptIdle
    /\ ComparisonIdle
    /\ MonitorIdle

\* no quality decoder has been called
QaIdle ==
    /\ custom_params = <<>>
    /\ params = <<>>
    /\ qa_config = <<>>
    /\ preset_name = "none"
    /\ preset = <<>>
    /\ quality_mask = MaskedPx

\* process_ren_method has not been called
RenIdle ==
    /\ terrain = [slope |-> 0, aspect |-> 0]
    /\ glacier = [func |-> "none", fraction |-> 0]
    /\ topo_img = NoImage
    /\ classified = NoImage
    /\ nb_snow = NoImage
    /\ nb_ice = NoImage
    /\ with_nb = NoImage
    /\ with_bb = NoImage
    /\ result = NoImage
    /\ brdf_surface = "none"
    /\ glacier_mask_raw = MaskedPx

\* run_modular_comparison has not been called
FlowIdle ==
    /\ method_name = "none"
    /\ processor = "none"
    /\ list_eval = "none"
    /\ collection = <<>>
    /\ results = [raised |-> FALSE, images |-> <<>>]
    /\ image_index = 0
    /\ stats_list = <<>>

\* ------------------------------------------------------------------------
\* Specification SpecQA: one call of a quality decoder on one pixel
\* ------------------------------------------------------------------------

InitQA ==
    /\ pc \in {"quality_filter_mod09a1", "apply_mod10a1_quality_filter",
               "process_mcd43a3_method", "create_relaxed_filter_preset"}
    /\ image \in CASE pc = "apply_mod10a1_quality_filter" -> Mod10Images
                   [] pc = "process_mcd43a3_method" -> Mcd43Images
                   [] OTHER -> Mod09Images
    /\ relaxed_qa \in IF pc = "apply_mod10a1_quality_filter" THEN {FALSE} ELSE BOOLEAN
    /\ custom_params \in IF pc = "quality_filter_mod09a1" THEN CustomParamSets ELSE {<<>>}
    /\ qa_config \in IF pc = "apply_mod10a1_quality_filter" THEN Mod10Configs ELSE {<<>>}
    /\ preset_name \in IF pc = "create_relaxed_filter_preset" THEN PresetNames ELSE {"none"}
    /\ params = <<>>
    /\ preset = <<>>
    /\ quality_mask = MaskedPx
    /\ filtered = NoImage
    /\ error = "none"
    /\ terrain = [slope |-> 0, aspect |-> 0]
    /\ glacier = [func |-> "none", fraction |-> 0]
    /\ topo_img = NoImage
    /\ classified = NoImage
    /\ nb_snow = NoImage
    /\ nb_ice = NoImage
    /\ with_nb = NoImage
    /\ with_bb = NoImage
    /\ result = NoImage
    /\ brdf_surface = "none"
    /\ glacier_mask_raw = MaskedPx
    /\ UtilIdle
    /\ method_name = "none"
    /\ processor = "none"
    /\ list_eval = "none"
    /\ collection = <<>>
    /\ results = [raised |-> FALSE, images |-> <<>>]
    /\ image_index = 0
    /\ stats_list = <<>>

\* quality_filters.py 74-135
QualityFilterMod09 ==
    /\ pc = "quality_filter_mod09a1"
    /\ IF {"state_1km", "SolarZenith"} \subseteq DOMAIN image
       THEN /\ params' = Mod09Params(relaxed_qa, custom_params)
            /\ filtered' = quality_filter_mod09a1(image, relaxed_qa, custom_params)
            /\ error' = "none"
       ELSE /\ error' = "MissingBand"
            /\ UNCHANGED <<params, filtered>>
    /\ pc' = "mod09_done"
    /\ UNCHANGED <<image, relaxed_qa, custom_params, qa_config, preset_name,
                   preset, quality_mask, renVars, flowVars, utilVars>>

\* quality_filters.py 235-272; the returned dictionary is what a caller hands
\* to quality_filter_mod09a1 as custom_params
CreateRelaxedFilterPreset ==
    /\ pc = "create_relaxed_filter_preset"
    /\ preset' = create_relaxed_filter_preset(preset_name)
    /\ custom_params' = preset'
    /\ pc' = "quality_filter_mod09a1"
    /\ UNCHANGED <<image, relaxed_qa, params, qa_config, preset_name,
                   quality_mask, filtered, error, renVars, flowVars, utilVars>>

\* mod10a1_method.py 127-144, 232-248
ApplyMod10a1QualityFilter ==
    /\ pc = "apply_mod10a1_quality_filter"
    /\ IF {"NDSI_Snow_Cover_Basic_QA", "NDSI_Snow_Cover_Algorithm_Flags_QA"}
            \subseteq DOMAIN image
       THEN /\ quality_mask' = create_comprehensive_quality_mask(image, qa_config)
            /\ filtered' = apply_mod10a1_quality_filter(image, qa_config)
            /\ error' = "none"
       ELSE /\ error' = "MissingBand"
            /\ UNCHANGED <<quality_mask, filtered>>
    /\ pc' = "mod10a1_done"
    /\ UNCHANGED <<image, relaxed_qa, custom_params, params, qa_config,
                   preset_name, preset, renVars, flowVars, utilVars>>

\* mcd43a3_method.py 54-96, 163-169
ApplyMcd43a3QualityFilter ==
    /\ pc = "process_mcd43a3_method"
    /\ IF {"BRDF_Albedo_Band_Mandatory_Quality_shortwave",
           "BRDF_Albedo_Band_Mandatory_Quality_vis",
           "BRDF_Albedo_Band_Mandatory_Quality_nir"} \subseteq DOMAIN image
       THEN /\ quality_mask' = create_mcd43a3_quality_mask(image, relaxed_qa)
            /\ filtered' = apply_mcd43a3_quality_filter(image, relaxed_qa)
            /\ error' = "none"
       ELSE /\ error' = "MissingBand"
            /\ UNCHANGED <<quality_mask, filtered>>
    /\ pc' = "mcd43a3_done"
    /\ UNCHANGED <<image, relaxed_qa, custom_params, params, qa_config,
                   preset_name, preset, renVars, flowVars, utilVars>>

NextQA ==
    \/ QualityFilterMod09
    \/ CreateRelaxedFilterPreset
    \/ ApplyMod10a1QualityFilter
    \/ ApplyMcd43a3QualityFilter

SpecQA == InitQA /\ [][NextQA]_vars

\* ------------------------------------------------------------------------
\* Properties of the quality decoders (checked under SpecQA)
\* ------------------------------------------------------------------------

\* the sub-fields of a state_1km word, read arithmetically
CloudState(q) == q % 4
ShadowBit(q) == (q \div 4) % 2
CirrusLevel(q) == (q \div 256) % 4
InternalCloudBit(q) == (q \div 1024) % 2
SnowIceConfidence(q) == (q \div 4096) % 4

Mod09Done == pc = "mod09_done" /\ error = "none"

Mod09Valid == filtered["sur_refl_b01"].ok

\* the criteria of the MOD09 filter other than cloud state and cirrus
Mod09OtherCriteria(q, z, p) ==
    /\ SnowIceConfidence(q) > p.snow_ice_min
    /\ z < 100 * p.solar_zenith_max
    /\ (p.allow_shadow \/ ShadowBit(q) = 0)
    /\ (~p.use_internal_cloud \/ InternalCloudBit(q) = 0)

\* C2: quality_filter_mod09a1 keeps a pixel valid iff cloud state <= threshold,
\* the cirrus criterion passes, snow/ice confidence > snow_ice_min,
\* SolarZenith*0.01 < solar_zenith_max, (allow_shadow or bit 2 clear) and
\* (not use_internal_cloud or bit 10 clear); without custom_params the
\* parameters are exactly the strict or the relaxed set.
C2_Mod09MaskIsConjunction ==
    Mod09Done =>
        LET q == image["state_1km"].v
            z == image["SolarZenith"].v
        IN  /\ Mod09Valid <=>
                  /\ CloudState(q) <= params.cloud_state_threshold
                  /\ no_cirrus(image["state_1km"], params).v = 1
                  /\ Mod09OtherCriteria(q, z, params)
            /\ DOMAIN custom_params = {} =>
                  params = IF relaxed_qa
                           THEN [cloud_state_threshold |-> 1, allow_shadow |-> FALSE,
                                 cirrus_threshold |-> 0, use_internal_cloud |-> FALSE,
                                 snow_ice_min |-> 0, solar_zenith_max |-> 75]
                           ELSE [cloud_state_threshold |-> 0, allow_shadow |-> FALSE,
                                 cirrus_threshold |-> 0, use_internal_cloud |-> TRUE,
                                 snow_ice_min |-> 0, solar_zenith_max |-> 70]

\* a pixel kept only because a custom parameter set allows its cloud shadow
C2_Witness ==
    /\ Mod09Done
    /\ Mod09Valid
    /\ custom_params = ("allow_shadow" :> TRUE)
    /\ ShadowBit(image["state_1km"].v) = 1

\* C3: the cirrus criterion compares the 2-bit cirrus level (bits 8-9) with
\* cirrus_threshold: threshold 0 rejects levels 1, 2 and 3, and threshold 1
\* accepts level 1 when all other criteria pass.
C3_CirrusLevelCompared ==
    Mod09Done =>
        LET q == image["state_1km"].v
            z == image["SolarZenith"].v
        IN  /\ (params.cirrus_threshold = 0 /\ CirrusLevel(q) \in 1..3) => ~Mod09Valid
            /\ ( /\ params.cirrus_threshold = 1
                 /\ CirrusLevel(q) = 1
                 /\ CloudState(q) <= params.cloud_state_threshold
                 /\ Mod09OtherCriteria(q, z, params) ) => Mod09Valid

\* C4: with cloud state 0 = clear, 1 = cloudy, 2 = mixed, the relaxed policy
\* accepts clear and mixed pixels and rejects cloudy ones, and the strict
\* policy accepts only clear pixels.
C4_RelaxedAcceptsClearAndMixed ==
    (Mod09Done /\ DOMAIN custom_params = {}) =>
        LET q == image["state_1km"].v
            z == image["SolarZenith"].v
            others == /\ no_cirrus(image["state_1km"], params).v = 1
                      /\ Mod09OtherCriteria(q, z, params)
        IN  IF relaxed_qa
            THEN /\ CloudState(q) = 1 => ~Mod09Valid
                 /\ (CloudState(q) \in {0, 2} /\ others) => Mod09Valid
            ELSE Mod09Valid => CloudState(q) = 0

SolarZenithMaxValues == {60, 70, 75, 80, 85, 90}

\* every MOD09 parameter set that relaxes p in zero or more criteria
Mod09Relaxations(p) ==
    { [cloud_state_threshold |-> c, allow_shadow |-> sh, cirrus_threshold |-> ci,
       use_internal_cloud |-> ic, snow_ice_min |-> si, solar_zenith_max |-> sz] :
        c \in p.cloud_state_threshold..3,
        sh \in {p.allow_shadow, TRUE},
        ci \in p.cirrus_threshold..3,
        ic \in {p.use_internal_cloud, FALSE},
        si \in (-1)..p.snow_ice_min,
        sz \in {m \in SolarZenithMaxValues \cup {p.solar_zenith_max} :
                    m >= p.solar_zenith_max} }

TierRank(l) ==
    CASE l = "best" -> 0 [] l = "good" -> 1 [] l = "ok" -> 2 [] l = "all" -> 3

\* every MOD10A1 policy with a tier at least as high and no flag added
Mod10Relaxations(c) ==
    { [f \in DOMAIN c |->
          IF f = "basicLevel" THEN l ELSE (c[f] /\ f \in on)] :
        l \in {t \in BasicLevels : TierRank(t) >= TierRank(c.basicLevel)},
        on \in SUBSET {f \in Mod10FlagNames : c[f]} }

Mod10Effective == IF DOMAIN qa_config = {} THEN Mod10Standard ELSE qa_config

Mod10Done == pc = "mod10a1_done" /\ error = "none"

Mod10Valid == filtered["NDSI_Snow_Cover"].ok

Mcd43Done == pc = "mcd43a3_done" /\ error = "none"

Mcd43Valid == filtered["Albedo_BSA_shortwave"].ok

\* C5: quality masks are monotonic in the policy: a pixel valid under a
\* policy is valid under every policy that only relaxes criteria, and each
\* product's canonical relaxed preset accepts whatever its standard preset
\* accepts.
C5_MasksMonotonic ==
    /\ (Mod09Done /\ Mod09Valid) =>
          \A p2 \in Mod09Relaxations(params) :
              quality_filter_mod09a1(image, relaxed_qa, p2)["sur_refl_b01"].ok
    /\ (Mod09Done /\ quality_filter_mod09a1(image, FALSE, <<>>)["sur_refl_b01"].ok) =>
          quality_filter_mod09a1(image, TRUE, <<>>)["sur_refl_b01"].ok
    /\ (Mod10Done /\ Mod10Valid /\ Mod10Effective.basicLevel \in BasicLevels) =>
          \A c2 \in Mod10Relaxations(Mod10Effective) :
              apply_mod10a1_quality_filter(image, c2)["NDSI_Snow_Cover"].ok
    /\ (Mod10Done /\ apply_mod10a1_quality_filter(image, Mod10Standard)["NDSI_Snow_Cover"].ok) =>
          apply_mod10a1_quality_filter(image, Mod10Relaxed)["NDSI_Snow_Cover"].ok
    /\ (Mcd43Done /\ apply_mcd43a3_quality_filter(image, FALSE)["Albedo_BSA_shortwave"].ok) =>
          apply_mcd43a3_quality_filter(image, TRUE)["Albedo_BSA_shortwave"].ok

\* a pixel valid under snow_ice_min = 1, which has a proper relaxation
C5_Witness ==
    /\ Mod09Done
    /\ Mod09Valid
    /\ custom_params = ("snow_ice_min" :> 1)
    /\ Cardinality(Mod09Relaxations(params)) > 1

\* the exclusion flag of each bit of the algorithm-flags byte
Mod10FlagOfBit ==
    <<"excludeInlandWater", "excludeVisibleScreenFail", "excludeNDSIScreenFail",
      "excludeTempHeightFail", "excludeSWIRAnomaly", "excludeProbablyCloudy",
      "excludeProbablyClear", "excludeHighSolarZenith">>

\* C6: create_comprehensive_quality_mask marks a pixel valid iff the basic QA
\* value is within the policy's tier (best = 0, good <= 1, ok <= 2, all <= 3),
\* is neither 211 nor 239, and every enabled exclusion flag's bit is 0; the
\* sentinels 211 and 239 are rejected under every tier.
C6_Mod10MaskIsTierAndFlags ==
    (Mod10Done /\ Mod10Effective.basicLevel \in BasicLevels) =>
        LET b == image["NDSI_Snow_Cover_Basic_QA"].v
            f == image["NDSI_Snow_Cover_Algorithm_Flags_QA"].v
            c == Mod10Effective
        IN  /\ (quality_mask.ok /\ quality_mask.v = 1) <=>
                  /\ b <= TierRank(c.basicLevel)
                  /\ b \notin {211, 239}
                  /\ \A i \in 1..8 :
                        c[Mod10FlagOfBit[i]] => (f \div Pow2(i - 1)) % 2 = 0
            /\ Mod10Valid <=> (quality_mask.ok /\ quality_mask.v = 1)
            /\ b \in {211, 239} => ~Mod10Valid

\* a pixel of quality 2 with the probably-cloudy bit set, kept by the relaxed policy
C6_Witness ==
    /\ Mod10Done
    /\ Mod10Valid
    /\ qa_config = Mod10Relaxed
    /\ image["NDSI_Snow_Cover_Basic_QA"].v = 2
    /\ image["NDSI_Snow_Cover_Algorithm_Flags_QA"].v = 32

GoodCode(x) == IF x \in {0, 1} THEN 1 ELSE 0

\* C7: create_mcd43a3_quality_mask marks a pixel valid iff at least 2 (standard)
\* or at least 1 (relaxed) of the three mandatory-quality codes is 0 or 1; a
\* pixel with no such code is masked under both policies.
C7_Mcd43GoodBandCount ==
    Mcd43Done =>
        LET n == GoodCode(image["BRDF_Albedo_Band_Mandatory_Quality_shortwave"].v)
                 + GoodCode(image["BRDF_Albedo_Band_Mandatory_Quality_vis"].v)
                 + GoodCode(image["BRDF_Albedo_Band_Mandatory_Quality_nir"].v)
        IN  Mcd43Valid <=> n >= (IF relaxed_qa THEN 1 ELSE 2)

DefinedPresetNames == {"moderate", "maximum", "glacier_optimized"}

\* C8: a policy name that is not a defined name is rejected with an error:
\* create_relaxed_filter_preset with an unknown preset name, and the MOD10A1
\* decoder with an unknown basic-quality level, never return or apply some
\* other policy.
C8_UnknownPolicyRejected ==
    /\ (preset_name \notin DefinedPresetNames \cup {"none"}
            /\ pc # "create_relaxed_filter_preset")
          => (error # "none" /\ DOMAIN preset = {} /\ DOMAIN filtered = {})
    /\ (pc = "mod10a1_done" /\ Mod10Effective.basicLevel \notin BasicLevels)
          => (error # "none" /\ DOMAIN filtered = {})

\* ------------------------------------------------------------------------
\* settings.py: band lists and coefficient tables
\* Reflectances and narrow-band albedos are held in units of 0.00001, angles
\* in 0.01 degree, cosines in units of 0.0001, radians in units of 0.0001,
\* broadband coefficients in units of 0.0001 (so broadband albedos are in
\* units of 0.000000001).
\* ------------------------------------------------------------------------

REFL_BANDS ==
    <<"sur_refl_b01", "sur_refl_b02", "sur_refl_b03",
      "sur_refl_b04", "sur_refl_b05", "sur_refl_b07">>

TOPO_BANDS_ALL ==
    <<"sur_refl_b01_topo", "sur_refl_b02_topo", "sur_refl_b03_topo",
      "sur_refl_b04_topo", "sur_refl_b05_topo", "sur_refl_b07_topo">>

TOPO_BANDS_SNOW ==
    <<"sur_refl_b01_topo", "sur_refl_b02_topo", "sur_refl_b03_topo",
      "sur_refl_b05_topo", "sur_refl_b07_topo">>

NARROWBAND_ALL ==
    <<"narrowband_b1", "narrowband_b2", "narrowband_b3",
      "narrowband_b4", "narrowband_b5", "narrowband_b7">>

NARROWBAND_SNOW ==
    <<"narrowband_b1", "narrowband_b2", "narrowband_b3",
      "narrowband_b5", "narrowband_b7">>

BAND_NUMS_ALL == <<"b1", "b2", "b3", "b4", "b5", "b7">>

BAND_NUMS_SNOW == <<"b1", "b2", "b3", "b5", "b7">>

ICE_COEFFICIENTS ==
    [b1 |-> 1600, b2 |-> 2910, b3 |-> 2430, b4 |-> 1160, b5 |-> 1120,
     b7 |-> 810, constant |-> -15]

SNOW_COEFFICIENTS ==
    [b1 |-> 1574, b2 |-> 2789, b3 |-> 3829, b5 |-> 1131, b7 |-> 694,
     constant |-> -93]

\* the snow table with a row for band 4
SNOW_BRDF_COEFFICIENTS_with_b4 ==
    [b1 |-> [c1 |-> 83, c2 |-> 384, c3 |-> 452, theta_c |-> 34527],
     b2 |-> [c1 |-> 123, c2 |-> 459, c3 |-> 521, theta_c |-> 34834],
     b3 |-> [c1 |-> 0, c2 |-> 1, c3 |-> 2, theta_c |-> 12131],
     b4 |-> [c1 |-> 0, c2 |-> 0, c3 |-> 0, theta_c |-> 0],
     b5 |-> [c1 |-> 663, c2 |-> 1081, c3 |-> 1076, theta_c |-> 46132],
     b7 |-> [c1 |-> 622, c2 |-> 1410, c3 |-> 1314, theta_c |-> 55261]]

SNOW_BRDF_COEFFICIENTS ==
    [b1 |-> [c1 |-> 83, c2 |-> 384, c3 |-> 452, theta_c |-> 34527],
     b2 |-> [c1 |-> 123, c2 |-> 459, c3 |-> 521, theta_c |-> 34834],
     b3 |-> [c1 |-> 0, c2 |-> 1, c3 |-> 2, theta_c |-> 12131],
     b5 |-> [c1 |-> 663, c2 |-> 1081, c3 |-> 1076, theta_c |-> 46132],
     b7 |-> [c1 |-> 622, c2 |-> 1410, c3 |-> 1314, theta_c |-> 55261]]

ICE_BRDF_COEFFICIENTS ==
    [b1 |-> [c1 |-> -54, c2 |-> 2, c3 |-> 1, theta_c |-> 17600],
     b2 |-> [c1 |-> -924, c2 |-> 33, c3 |-> -5, theta_c |-> 31750],
     b3 |-> [c1 |-> -369, c2 |-> 0, c3 |-> 7, theta_c |-> 27632],
     b4 |-> [c1 |-> -2920, c2 |-> -810, c3 |-> 462, theta_c |-> 52360],
     b5 |-> [c1 |-> -2388, c2 |-> 656, c3 |-> 227, theta_c |-> 58473],
     b7 |-> [c1 |-> -2081, c2 |-> 683, c3 |-> 390, theta_c |-> 57500]]

\* f'narrowband_{band_num}'
NarrowbandName(bn) ==
    CASE bn = "b1" -> "narrowband_b1" [] bn = "b2" -> "narrowband_b2"
      [] bn = "b3" -> "narrowband_b3" [] bn = "b4" -> "narrowband_b4"
      [] bn = "b5" -> "narrowband_b5" [] bn = "b7" -> "narrowband_b7"

\* ------------------------------------------------------------------------
\* Trigonometry in fixed point: cosine of whole degrees 0..180 (x 10000),
\* linear interpolation in between
\* ------------------------------------------------------------------------

CosTab ==
    << 10000, 9998, 9994, 9986, 9976, 9962, 9945, 9925, 9903, 9877,
       9848, 9816, 9781, 9744, 9703, 9659, 9613, 9563, 9511, 9455,
       9397, 9336, 9272, 9205, 9135, 9063, 8988, 8910, 8829, 8746,
       8660, 8572, 8480, 8387, 8290, 8192, 8090, 7986, 7880, 7771,
       7660, 7547, 7431, 7314, 7193, 7071, 6947, 6820, 6691, 6561,
       6428, 6293, 6157, 6018, 5878, 5736, 5592, 5446, 5299, 5150,
       5000, 4848, 4695, 4540, 4384, 4226, 4067, 3907, 3746, 3584,
       3420, 3256, 3090, 2924, 2756, 2588, 2419, 2250, 2079, 1908,
       1736, 1564, 1392, 1219, 1045, 872, 698, 523, 349, 175,
       0, -175, -349, -523, -698, -872, -1045, -1219, -1392, -1564,
       -1736, -1908, -2079, -2250, -2419, -2588, -2756, -2924, -3090, -3256,
       -3420, -3584, -3746, -3907, -4067, -4226, -4384, -4540, -4695, -4848,
       -5000, -5150, -5299, -5446, -5592, -5736, -5878, -6018, -6157, -6293,
       -6428, -6561, -6691, -6820, -6947, -7071, -7193, -7314, -7431, -7547,
       -7660, -7771, -7880, -7986, -8090, -8192, -8290, -8387, -8480, -8572,
       -8660, -8746, -8829, -8910, -8988, -9063, -9135, -9205, -9272, -9336,
       -9397, -9455, -9511, -9563, -9613, -9659, -9703, -9744, -9781, -9816,
       -9848, -9877, -9903, -9925, -9945, -9962, -9976, -9986, -9994, -9998,
       -10000 >>

\* cos of an angle given in 0.01 degree
Cos(x) ==
    LET a == IF x < 0 THEN -x ELSE x
        m == a % 36000
        r == IF m > 18000 THEN 36000 - m ELSE m
        d == r \div 100
        f == r % 100
    IN  IF f = 0 THEN CosTab[d + 1]
        ELSE CosTab[d + 1] + ((CosTab[d + 2] - CosTab[d + 1]) * f) \div 100

Sin(x) == Cos(9000 - x)

\* acos, in 0.01 degree, of a cosine in units of 0.0001
ACos(c) ==
    LET x == IF c > 10000 THEN 10000 ELSE IF c < -10000 THEN -10000 ELSE c
        d == CHOOSE k \in 0..180 : CosTab[k + 1] <= x /\ (k = 0 \/ CosTab[k] > x)
    IN  IF CosTab[d + 1] = x THEN 100 * d
        ELSE 100 * (d - 1) + ((CosTab[d] - x) * 100) \div (CosTab[d] - CosTab[d + 1])

\* multiply(math.pi/180): 0.01 degree to 0.0001 radian
Radians(x) == (x * 31416) \div 18000

\* ------------------------------------------------------------------------
\* Raster algebra used by the Ren pipeline
\* ------------------------------------------------------------------------

Subtract(a, b) == IF a.ok /\ b.ok THEN Px(a.v - b.v) ELSE MaskedPx

MultiplyConst(a, k) == IF a.ok THEN Px(a.v * k) ELSE MaskedPx

\* the value taken where the test is zero instead
Where_inverted(input, test, value) ==
    IF ~input.ok THEN MaskedPx
    ELSE IF test.ok /\ value.ok /\ test.v = 0 THEN value
    ELSE input

\* input.where(test, value): masked where the input is masked; the value is
\* taken where test is unmasked and non-zero and the value is unmasked
Where(input, test, value) ==
    IF ~input.ok THEN MaskedPx
    ELSE IF test.ok /\ value.ok /\ test.v # 0 THEN value
    ELSE input

\* dst.addBands(src): bands of src whose names dst lacks are added (a band
\* whose name dst already has is kept from dst; the suffixed copy is left out)
addBands(dst, src) ==
    [b \in (DOMAIN dst) \cup (DOMAIN src) |-> IF b \in DOMAIN dst THEN dst[b] ELSE src[b]]

\* ------------------------------------------------------------------------
\* ren_method.py: topography_correction
\* ------------------------------------------------------------------------

\* Equations 3a / 3b with the sine and cosine of the slope exchanged
CorrectedCos_slope_swapped(slope, aspect, zenith, azimuth) ==
    (Sin(slope) * Cos(zenith)) \div 10000
    + (((Cos(slope) * Sin(zenith)) \div 10000) * Cos(aspect - azimuth)) \div 10000

\* Equations 3a / 3b: cos a cos t + sin a sin t cos(b - phi)
CorrectedCos(slope, aspect, zenith, azimuth) ==
    (Cos(slope) * Cos(zenith)) \div 10000
    + (((Sin(slope) * Sin(zenith)) \div 10000) * Cos(aspect - azimuth)) \div 10000

\* a.divide(b) on cosines: 0 where the divisor is 0
CorrectionFactor(cos_corrected, cos_zenith) ==
    IF cos_zenith = 0 THEN 0 ELSE (cos_corrected * 10000) \div cos_zenith

topography_correction(img, terr) ==
    LET sz == img["SolarZenith"]
        sa == img["SolarAzimuth"]
        vz == img["SensorZenith"]
        va == img["SensorAzimuth"]
        cos_sensor_zenith_corrected ==
            IF vz.ok /\ va.ok
            THEN Px(CorrectedCos(terr.slope, terr.aspect, vz.v, va.v)) ELSE MaskedPx
        cos_solar_zenith_corrected ==
            IF sz.ok /\ sa.ok
            THEN Px(CorrectedCos(terr.slope, terr.aspect, sz.v, sa.v)) ELSE MaskedPx
        correction_factor ==
            IF cos_solar_zenith_corrected.ok /\ sz.ok
            THEN Px(CorrectionFactor(cos_solar_zenith_corrected.v, Cos(sz.v)))
            ELSE MaskedPx
        corrected ==
            [t \in {TOPO_BANDS_ALL[i] : i \in 1..Len(REFL_BANDS)} |->
                LET i == CHOOSE k \in 1..Len(REFL_BANDS) : TOPO_BANDS_ALL[k] = t
                    band == img[REFL_BANDS[i]]
                IN  IF band.ok /\ correction_factor.ok
                    THEN Px((band.v * correction_factor.v) \div 1000)
                    ELSE MaskedPx]
        angles ==
            [sensor_zenith_corrected |->
                IF cos_sensor_zenith_corrected.ok
                THEN Px(ACos(cos_sensor_zenith_corrected.v)) ELSE MaskedPx,
             solar_zenith_corrected |->
                IF cos_solar_zenith_corrected.ok
                THEN Px(ACos(cos_solar_zenith_corrected.v)) ELSE MaskedPx]
    IN  addBands(addBands(img, corrected), angles)

\* ------------------------------------------------------------------------
\* ren_method.py: classify_snow_ice
\* NDSI is kept as the exact quotient [num, den]
\* ------------------------------------------------------------------------

\* band.multiply(0.0001): stored integer to reflectance (units of 0.00001)
Descale(a) == IF a.ok THEN Px(a.v * 10) ELSE MaskedPx

\* a.divide(b): the quotient, 0 where b is 0
Divide(a, b) ==
    IF a.ok /\ b.ok
    THEN Px(IF b.v = 0 THEN [num |-> 0, den |-> 1] ELSE [num |-> a.v, den |-> b.v])
    ELSE MaskedPx

\* the threshold test including equality
GteFourTenths(q) ==
    IF q.ok
    THEN Px(Bool01(IF q.v.den > 0 THEN 10 * q.v.num >= 4 * q.v.den
                   ELSE 10 * q.v.num <= 4 * q.v.den))
    ELSE MaskedPx

\* quotient.gt(0.4)
GtFourTenths(q) ==
    IF q.ok
    THEN Px(Bool01(IF q.v.den > 0 THEN 10 * q.v.num > 4 * q.v.den
                   ELSE 10 * q.v.num < 4 * q.v.den))
    ELSE MaskedPx

classify_snow_ice(img) ==
    LET green == IF "sur_refl_b04_topo" \in DOMAIN img
                 THEN img["sur_refl_b04_topo"] ELSE Descale(img["sur_refl_b04"])
        swir == IF "sur_refl_b06_topo" \in DOMAIN img
                THEN img["sur_refl_b06_topo"] ELSE Descale(img["sur_refl_b07"])
        ndsi == Divide(Subtract(green, swir), Add(green, swir))
        snow_mask == GtFourTenths(ndsi)
    IN  addBands(img, [NDSI |-> ndsi, snow_mask |-> snow_mask])

\* ------------------------------------------------------------------------
\* ren_method.py: apply_brdf_anisotropic_correction
\* ------------------------------------------------------------------------

\* the anisotropy term without its relative-azimuth term
FTilde_no_azimuth(coeffs, theta_v, phi_rel) ==
    coeffs.c1
    + (coeffs.c2 * Cos(theta_v)) \div 10000
    + (coeffs.theta_c * Radians(theta_v)) \div 10000

\* f = c1 + c2 cos(theta_v) + c3 cos(phi_rel) + theta_c theta_v
FTilde(coeffs, theta_v, phi_rel) ==
    coeffs.c1
    + (coeffs.c2 * Cos(theta_v)) \div 10000
    + (coeffs.c3 * Cos(phi_rel)) \div 10000
    + (coeffs.theta_c * Radians(theta_v)) \div 10000

\* the correction with the reflectance list of all six bands for both surfaces
apply_brdf_anisotropic_correction_misaligned(img, surface_type) ==
    LET sensor_zenith_corrected == img["sensor_zenith_corrected"]
        relative_azimuth == Subtract(img["SensorAzimuth"], img["SolarAzimuth"])
        brdf_coefficients ==
            IF surface_type = "snow" THEN SNOW_BRDF_COEFFICIENTS ELSE ICE_BRDF_COEFFICIENTS
        bands == TOPO_BANDS_ALL
        band_nums == IF surface_type = "snow" THEN BAND_NUMS_SNOW ELSE BAND_NUMS_ALL
        f_tilde(i) ==
            IF sensor_zenith_corrected.ok /\ relative_azimuth.ok
            THEN Px(FTilde(brdf_coefficients[band_nums[i]],
                           sensor_zenith_corrected.v, relative_azimuth.v))
            ELSE MaskedPx
        corrected_bands ==
            [n \in {NarrowbandName(band_nums[i]) : i \in 1..Len(band_nums)} |->
                LET i == CHOOSE k \in 1..Len(band_nums) : NarrowbandName(band_nums[k]) = n
                IN  Subtract(img[bands[i]], f_tilde(i))]
    IN  addBands(img, corrected_bands)

apply_brdf_anisotropic_correction(img, surface_type) ==
    LET sensor_zenith_corrected == img["sensor_zenith_corrected"]
        relative_azimuth == Subtract(img["SensorAzimuth"], img["SolarAzimuth"])
        brdf_coefficients ==
            IF surface_type = "snow" THEN SNOW_BRDF_COEFFICIENTS ELSE ICE_BRDF_COEFFICIENTS
        bands == IF surface_type = "snow" THEN TOPO_BANDS_SNOW ELSE TOPO_BANDS_ALL
        band_nums == IF surface_type = "snow" THEN BAND_NUMS_SNOW ELSE BAND_NUMS_ALL
        f_tilde(i) ==
            IF sensor_zenith_corrected.ok /\ relative_azimuth.ok
            THEN Px(FTilde(brdf_coefficients[band_nums[i]],
                           sensor_zenith_corrected.v, relative_azimuth.v))
            ELSE MaskedPx
        corrected_bands ==
            [n \in {NarrowbandName(band_nums[i]) : i \in 1..Len(bands)} |->
                LET i == CHOOSE k \in 1..Len(bands) : NarrowbandName(band_nums[k]) = n
                IN  Subtract(img[bands[i]], f_tilde(i))]
    IN  addBands(img, corrected_bands)

\* ------------------------------------------------------------------------
\* ren_method.py: process_ren_method step 4 (merge) and compute_broadband_albedo
\* ------------------------------------------------------------------------

\* the merge with the snow model's bands never selected
MergeNarrowbands_ice_only(cls, snow, ice) ==
    addBands(cls, [band \in {NARROWBAND_ALL[i] : i \in 1..Len(NARROWBAND_ALL)} |->
                      ice[band]])

MergeNarrowbands(cls, snow, ice) ==
    LET snow_mask == cls["snow_mask"]
        merged_nb ==
            [band \in {NARROWBAND_ALL[i] : i \in 1..Len(NARROWBAND_ALL)} |->
                IF band = "narrowband_b4" THEN ice[band]
                ELSE Where(ice[band], snow_mask, snow[band])]
    IN  addBands(cls, merged_nb)

\* ee.Image.constant(c): unmasked everywhere (0.0001 -> 0.000000001)
BroadbandConstant(c) == Px(c * 100000)

\* a sum that takes a masked operand as 0 (operands unmasked before adding)
AddUnmasked(a, b) == Px((IF a.ok THEN a.v ELSE 0) + (IF b.ok THEN b.v ELSE 0))

\* constant.add(band): masked where the band is masked
AddBand(a, b) == Add(a, b)

compute_broadband_albedo(img) ==
    LET nv == [bn \in {BAND_NUMS_ALL[i] : i \in 1..Len(BAND_NUMS_ALL)} |->
                  img[NarrowbandName(bn)]]
        alpha_ice ==
            AddBand(AddBand(AddBand(AddBand(AddBand(AddBand(BroadbandConstant(ICE_COEFFICIENTS["constant"]),
                MultiplyConst(nv["b1"], ICE_COEFFICIENTS["b1"])),
                MultiplyConst(nv["b2"], ICE_COEFFICIENTS["b2"])),
                MultiplyConst(nv["b3"], ICE_COEFFICIENTS["b3"])),
                MultiplyConst(nv["b4"], ICE_COEFFICIENTS["b4"])),
                MultiplyConst(nv["b5"], ICE_COEFFICIENTS["b5"])),
                MultiplyConst(nv["b7"], ICE_COEFFICIENTS["b7"]))
        alpha_snow ==
            AddBand(AddBand(AddBand(AddBand(AddBand(BroadbandConstant(SNOW_COEFFICIENTS["constant"]),
                MultiplyConst(nv["b1"], SNOW_COEFFICIENTS["b1"])),
                MultiplyConst(nv["b2"], SNOW_COEFFICIENTS["b2"])),
                MultiplyConst(nv["b3"], SNOW_COEFFICIENTS["b3"])),
                MultiplyConst(nv["b5"], SNOW_COEFFICIENTS["b5"])),
                MultiplyConst(nv["b7"], SNOW_COEFFICIENTS["b7"]))
        snow_mask == img["snow_mask"]
        broadband_albedo == Where(alpha_ice, snow_mask, alpha_snow)
    IN  addBands(img, [ice_albedo |-> alpha_ice, snow_albedo |-> alpha_snow,
                       broadband_albedo_ren |-> broadband_albedo])

\* ------------------------------------------------------------------------
\* glacier_utils.py: create_glacier_mask, as process_ren_method calls it
\* ------------------------------------------------------------------------

\* settings.py: GLACIER_ASSET = None
GLACIER_ASSET_DEFINED == FALSE

\* GLACIER_CONFIG['abundance_threshold'] = 0.50, as a percentage
ABUNDANCE_THRESHOLD == 50

\* lines 120-121: glacier_fraction.gte(abundance_threshold)
ThresholdMask(fraction) == Gte(Px(fraction), ABUNDANCE_THRESHOLD)

\* abundance_threshold argument: None, or a percentage
NoThreshold == [given |-> FALSE, v |-> 0]

\* create_glacier_mask with a threshold test that excludes equality
create_glacier_mask_configured_gt(asset_defined, outlines_given, reference_given, fraction, abundance_threshold) ==
    IF ~reference_given THEN [raised |-> TRUE, mask |-> MaskedPx]
    ELSE IF ~outlines_given \/ ~asset_defined
         THEN [raised |-> FALSE, mask |-> Px(1)]
         ELSE [raised |-> FALSE,
               mask |-> Gt(Px(fraction),
                           IF abundance_threshold.given THEN abundance_threshold.v
                           ELSE ABUNDANCE_THRESHOLD)]

\* glacier_utils.py 71-123 with the GLACIER_ASSET setting as an argument:
\* both branches dereference reference_image (.geometry() at line 87,
\* .projection() at line 116), which raises AttributeError when it is None
create_glacier_mask_configured(asset_defined, outlines_given, reference_given, fraction, abundance_threshold) ==
    IF ~outlines_given \/ ~asset_defined
    THEN IF ~reference_given THEN [raised |-> TRUE, mask |-> MaskedPx]
         ELSE [raised |-> FALSE, mask |-> Px(1)]
    ELSE LET threshold == IF abundance_threshold.given THEN abundance_threshold.v
                          ELSE ABUNDANCE_THRESHOLD
         IN  IF ~reference_given THEN [raised |-> TRUE, mask |-> MaskedPx]
             ELSE [raised |-> FALSE, mask |-> Gte(Px(fraction), threshold)]

\* create_glacier_mask(glacier_outlines, reference_image) under the
\* repository's settings
create_glacier_mask(outlines_given, reference_given, fraction) ==
    create_glacier_mask_configured(GLACIER_ASSET_DEFINED, outlines_given,
                                   reference_given, fraction, NoThreshold)

\* filter_glacier_pixels that weights the retained values by the fraction
filter_glacier_pixels_weighted(img, asset_defined, outlines_given, fraction, abundance_threshold) ==
    LET glacier_mask == create_glacier_mask_configured(asset_defined, outlines_given,
                            TRUE, fraction, abundance_threshold).mask
        kept == updateMask(img, glacier_mask)
    IN  [b \in DOMAIN kept |->
            IF kept[b].ok THEN Px((kept[b].v \div 100) * fraction) ELSE kept[b]]

\* glacier_utils.py 249-267: the image itself is the reference image
filter_glacier_pixels(img, asset_defined, outlines_given, fraction, abundance_threshold) ==
    LET glacier_mask == create_glacier_mask_configured(asset_defined, outlines_given,
                            TRUE, fraction, abundance_threshold).mask
    IN  updateMask(img, glacier_mask)

\* create_glacier_mask_func(glacier_outlines, None), line 81
GlacierMaskRaw(g) ==
    IF g.func = "create_glacier_mask"
    THEN create_glacier_mask(g.outlines, FALSE, g.fraction)
    ELSE [raised |-> FALSE, mask |-> ThresholdMask(g.fraction)]

\* lines 86-91
ReturnedImage(flt, bb, glacier_mask) ==
    LET masked_albedo == updateMask([b \in {"broadband_albedo_ren"} |-> bb[b]],
                                    glacier_mask)
    IN  addBands(addBands(flt, bb),
                 [broadband_albedo_ren_masked |-> masked_albedo["broadband_albedo_ren"]])

\* ------------------------------------------------------------------------
\* Specification SpecRen: process_ren_method on one pixel, stage by stage
\* ------------------------------------------------------------------------

\* clear / cloudy / mixed / clear with internal-cloud flag; snow confidence 1
RenState1kmValues == {4104, 4105, 4106, 5128}

RenSolarZenithValues == {3000, 7000, 7200, 7500, 8000}

\* stored reflectances of bands 1, 2, 3, 4, 5, 7: snow, ice, NDSI of exactly
\* 0.4 on raw bands, and a dark pixel (green + SWIR = 0)
ReflectanceProfiles ==
    { <<8500, 8000, 8800, 8600, 4000, 1000>>,
      <<3500, 3000, 3800, 3600, 2000, 1800>>,
      <<6000, 5500, 6500, 7000, 3500, 3000>>,
      <<0, 0, 0, 0, 0, 0>> }

RenImages ==
    { [state_1km |-> Px(q), SolarZenith |-> Px(sz), SolarAzimuth |-> Px(18000),
       SensorZenith |-> Px(vz), SensorAzimuth |-> Px(va),
       sur_refl_b01 |-> Px(r[1]), sur_refl_b02 |-> Px(r[2]),
       sur_refl_b03 |-> Px(r[3]), sur_refl_b04 |-> Px(r[4]),
       sur_refl_b05 |-> Px(r[5]), sur_refl_b07 |-> Px(r[6])] :
        q \in RenState1kmValues, sz \in RenSolarZenithValues,
        vz \in {0, 3000}, va \in {0, 9000}, r \in ReflectanceProfiles }

Terrains == [slope : {0, 3000}, aspect : {0, 18000}]

\* the function handed in as create_glacier_mask_func: the repository's
\* create_glacier_mask, or a function returning the thresholded fraction
GlacierInputs ==
    { [func |-> "create_glacier_mask", outlines |-> FALSE, fraction |-> 100],
      [func |-> "threshold_mask", outlines |-> TRUE, fraction |-> 49],
      [func |-> "threshold_mask", outlines |-> TRUE, fraction |-> 50] }

InitRen ==
    /\ pc = "quality_filter"
    /\ image \in RenImages
    /\ relaxed_qa \in BOOLEAN
    /\ terrain \in Terrains
    /\ glacier \in GlacierInputs
    /\ custom_params = <<>>
    /\ params = <<>>
    /\ qa_config = <<>>
    /\ preset_name = "none"
    /\ preset = <<>>
    /\ quality_mask = MaskedPx
    /\ filtered = NoImage
    /\ error = "none"
    /\ topo_img = NoImage
    /\ classified = NoImage
    /\ nb_snow = NoImage
    /\ nb_ice = NoImage
    /\ with_nb = NoImage
    /\ with_bb = NoImage
    /\ result = NoImage
    /\ brdf_surface = "none"
    /\ glacier_mask_raw = MaskedPx
    /\ UtilIdle
    /\ method_name = "none"
    /\ processor = "none"
    /\ list_eval = "none"
    /\ collection = <<>>
    /\ results = [raised |-> FALSE, images |-> <<>>]
    /\ image_index = 0
    /\ stats_list = <<>>

RenFrame == <<image, relaxed_qa, terrain, glacier, custom_params, qa_config,
              preset_name, preset, quality_mask, flowVars, brdf_surface,
              glacier_mask_raw, utilVars>>

\* line 51
RenQualityFilter ==
    /\ pc = "quality_filter"
    /\ params' = Mod09Params(relaxed_qa, <<>>)
    /\ filtered' = quality_filter_mod09a1(image, relaxed_qa, <<>>)
    /\ pc' = "topography_correction"
    /\ UNCHANGED <<RenFrame, error, topo_img, classified, nb_snow, nb_ice,
                   with_nb, with_bb, result>>

\* line 52
RenTopographyCorrection ==
    /\ pc = "topography_correction"
    /\ topo_img' = topography_correction(filtered, terrain)
    /\ pc' = "classify_snow_ice"
    /\ UNCHANGED <<RenFrame, params, filtered, error, classified, nb_snow, nb_ice,
                   with_nb, with_bb, result>>

\* line 55
RenClassifySnowIce ==
    /\ pc = "classify_snow_ice"
    /\ classified' = classify_snow_ice(topo_img)
    /\ pc' = "brdf_snow"
    /\ UNCHANGED <<RenFrame, params, filtered, error, topo_img, nb_snow, nb_ice,
                   with_nb, with_bb, result>>

\* line 58
RenBrdfSnow ==
    /\ pc = "brdf_snow"
    /\ nb_snow' = apply_brdf_anisotropic_correction(classified, "snow")
    /\ pc' = "brdf_ice"
    /\ UNCHANGED <<RenFrame, params, filtered, error, topo_img, classified, nb_ice,
                   with_nb, with_bb, result>>

\* line 59
RenBrdfIce ==
    /\ pc = "brdf_ice"
    /\ nb_ice' = apply_brdf_anisotropic_correction(classified, "ice")
    /\ pc' = "merge"
    /\ UNCHANGED <<RenFrame, params, filtered, error, topo_img, classified, nb_snow,
                   with_nb, with_bb, result>>

\* lines 61-75
RenMerge ==
    /\ pc = "merge"
    /\ with_nb' = MergeNarrowbands(classified, nb_snow, nb_ice)
    /\ pc' = "compute_broadband_albedo"
    /\ UNCHANGED <<RenFrame, params, filtered, error, topo_img, classified, nb_snow,
                   nb_ice, with_bb, result>>

\* line 78
RenComputeBroadband ==
    /\ pc = "compute_broadband_albedo"
    /\ with_bb' = compute_broadband_albedo(with_nb)
    /\ pc' = "glacier_mask"
    /\ UNCHANGED <<RenFrame, params, filtered, error, topo_img, classified, nb_snow,
                   nb_ice, with_nb, result>>

\* lines 80-91
RenGlacierMask ==
    /\ pc = "glacier_mask"
    /\ LET raw == GlacierMaskRaw(glacier)
       IN  IF raw.raised
           THEN /\ error' = "AttributeError"
                /\ pc' = "ren_failed"
                /\ UNCHANGED result
           ELSE /\ result' = ReturnedImage(filtered, with_bb, raw.mask)
                /\ pc' = "ren_done"
                /\ UNCHANGED error
    /\ UNCHANGED <<RenFrame, params, filtered, topo_img, classified, nb_snow,
                   nb_ice, with_nb, with_bb>>

NextRen ==
    \/ RenQualityFilter
    \/ RenTopographyCorrection
    \/ RenClassifySnowIce
    \/ RenBrdfSnow
    \/ RenBrdfIce
    \/ RenMerge
    \/ RenComputeBroadband
    \/ RenGlacierMask

SpecRen == InitRen /\ [][NextRen]_vars

\* ------------------------------------------------------------------------
\* Properties of the Ren pipeline (checked under SpecRen)
\* ------------------------------------------------------------------------

BroadbandComputed == pc \in {"glacier_mask", "ren_done", "ren_failed"}

\* the snow linear combination of the snow-model narrow-band albedos
SnowCombination(nb) ==
    SNOW_COEFFICIENTS.constant * 100000
    + nb["narrowband_b1"].v * SNOW_COEFFICIENTS.b1
    + nb["narrowband_b2"].v * SNOW_COEFFICIENTS.b2
    + nb["narrowband_b3"].v * SNOW_COEFFICIENTS.b3
    + nb["narrowband_b5"].v * SNOW_COEFFICIENTS.b5
    + nb["narrowband_b7"].v * SNOW_COEFFICIENTS.b7

\* the ice linear combination of the six ice-model narrow-band albedos
IceCombination(nb) ==
    ICE_COEFFICIENTS.constant * 100000
    + nb["narrowband_b1"].v * ICE_COEFFICIENTS.b1
    + nb["narrowband_b2"].v * ICE_COEFFICIENTS.b2
    + nb["narrowband_b3"].v * ICE_COEFFICIENTS.b3
    + nb["narrowband_b4"].v * ICE_COEFFICIENTS.b4
    + nb["narrowband_b5"].v * ICE_COEFFICIENTS.b5
    + nb["narrowband_b7"].v * ICE_COEFFICIENTS.b7

\* C1: broadband_albedo_ren is the snow combination of the snow-model
\* narrow-band albedos where snow_mask is true and the ice combination of the
\* ice-model narrow-band albedos where it is false; the merged narrowband_b4
\* is the ice-model value at every pixel.
C1_BroadbandBySnowMask ==
    BroadbandComputed =>
        LET snow_mask == classified["snow_mask"]
            broadband == with_bb["broadband_albedo_ren"]
        IN  /\ with_nb["narrowband_b4"] = nb_ice["narrowband_b4"]
            /\ with_bb["narrowband_b4"] = nb_ice["narrowband_b4"]
            /\ (snow_mask.ok /\ snow_mask.v = 1) =>
                  broadband = Px(SnowCombination(nb_snow))
            /\ (snow_mask.ok /\ snow_mask.v = 0) =>
                  broadband = Px(IceCombination(nb_ice))
            /\ pc = "ren_done" => result["broadband_albedo_ren"] = broadband

\* a snow pixel on which the two BRDF models and the two combinations differ
C1_Witness ==
    /\ pc = "ren_done"
    /\ classified["snow_mask"].ok
    /\ classified["snow_mask"].v = 1
    /\ result["broadband_albedo_ren"].ok
    /\ nb_snow["narrowband_b1"] # nb_ice["narrowband_b1"]
    /\ SnowCombination(nb_snow) # IceCombination(nb_ice)

\* the bands process_ren_method derives from the filtered image
DerivedBands ==
    { TOPO_BANDS_ALL[i] : i \in 1..Len(TOPO_BANDS_ALL) }
    \cup { NARROWBAND_ALL[i] : i \in 1..Len(NARROWBAND_ALL) }
    \cup { "sensor_zenith_corrected", "solar_zenith_corrected", "NDSI", "snow_mask",
           "ice_albedo", "snow_albedo", "broadband_albedo_ren",
           "broadband_albedo_ren_masked" }

RenStageImages == <<topo_img, classified, nb_snow, nb_ice, with_nb, with_bb, result>>

\* the MOD09 quality filter marks the pixel invalid
RenInvalid ==
    LET m == Mod09Mask(image, IF relaxed_qa THEN RelaxedParams ELSE StrictParams)
    IN  ~(m.ok /\ m.v # 0)

\* C10: a pixel the MOD09 quality filter marks invalid is masked in every
\* band derived downstream in process_ren_method, at every stage.
C10_InvalidStaysMasked ==
    (pc # "quality_filter" /\ RenInvalid) =>
        \A k \in 1..Len(RenStageImages) :
            \A b \in DerivedBands \cap DOMAIN RenStageImages[k] :
                ~RenStageImages[k][b].ok

\* an invalid pixel carried through to the returned image
C10_Witness ==
    /\ pc = "ren_done"
    /\ RenInvalid
    /\ image["sur_refl_b01"].ok
    /\ DerivedBands \subseteq DOMAIN result

\* ------------------------------------------------------------------------
\* workflows/comparison.py and utils/export_utils.py: from a collection to
\* the rows of the statistics table
\* ------------------------------------------------------------------------

\* the bound on the number of images of a collection
MaxImages == 2

\* export_utils.py line 122
max_images == 50

\* the per-image outcome of a mapped function: client_error when building
\* the function body raises in Python, raised when evaluating the image on
\* the server fails, otherwise the bands of the image
Outcome(client_error, server_error, bands) ==
    [client_error |-> client_error, raised |-> server_error, bands |-> bands]

\* image.select(names) fails on the server when a name matches no band
SelectFails(img, names) == ~(names \subseteq DOMAIN img)

RenRequiredBands ==
    {"state_1km", "SolarZenith", "SolarAzimuth", "SensorZenith", "SensorAzimuth"}
    \cup { REFL_BANDS[i] : i \in 1..Len(REFL_BANDS) }

\* ren_method.py 33-91 as one call
process_ren_method(img, glacier_fn, relaxed, terr) ==
    LET raw == GlacierMaskRaw(glacier_fn)
        flt == quality_filter_mod09a1(img, relaxed, <<>>)
        cls == classify_snow_ice(topography_correction(flt, terr))
        snow == apply_brdf_anisotropic_correction(cls, "snow")
        ice == apply_brdf_anisotropic_correction(cls, "ice")
        bb == compute_broadband_albedo(MergeNarrowbands(cls, snow, ice))
    IN  IF raw.raised THEN Outcome(TRUE, FALSE, NoImage)
        ELSE IF SelectFails(img, RenRequiredBands) THEN Outcome(FALSE, TRUE, NoImage)
        ELSE Outcome(FALSE, FALSE, ReturnedImage(flt, bb, raw.mask))

\* band.updateMask(mask) on a single band
updateMaskBand(band, mask) ==
    IF band.ok /\ mask.ok /\ mask.v # 0 THEN band ELSE MaskedPx

\* mod10a1_method.py 177-229
process_mod10a1_method(img, glacier_fn, relaxed) ==
    LET cfg == IF relaxed THEN Mod10Relaxed ELSE Mod10Standard
        flt == apply_mod10a1_quality_filter(img, cfg)
        has_albedo_band == "Snow_Albedo_Daily_Tile" \in DOMAIN img
        final_albedo == IF has_albedo_band THEN flt["Snow_Albedo_Daily_Tile"]
                        ELSE flt["NDSI_Snow_Cover"]
        gm == create_glacier_mask(glacier_fn.outlines, TRUE, glacier_fn.fraction)
    IN  IF SelectFails(img, {"NDSI_Snow_Cover_Basic_QA",
                             "NDSI_Snow_Cover_Algorithm_Flags_QA", "NDSI_Snow_Cover"})
        THEN Outcome(FALSE, TRUE, NoImage)
        ELSE Outcome(FALSE, FALSE,
                 addBands(addBands(flt, [broadband_albedo_mod10a1 |-> final_albedo]),
                          [broadband_albedo_mod10a1_masked |->
                              updateMaskBand(final_albedo, gm.mask)]))

\* mcd43a3_method.py 146-193
process_mcd43a3_method(img, glacier_fn, relaxed) ==
    LET flt == apply_mcd43a3_quality_filter(img, relaxed)
        black_sky_sw == flt["Albedo_BSA_shortwave"]
        white_sky_sw == flt["Albedo_WSA_shortwave"]
        gm == create_glacier_mask(glacier_fn.outlines, TRUE, glacier_fn.fraction)
    IN  IF SelectFails(img, {"BRDF_Albedo_Band_Mandatory_Quality_shortwave",
                             "BRDF_Albedo_Band_Mandatory_Quality_vis",
                             "BRDF_Albedo_Band_Mandatory_Quality_nir",
                             "Albedo_BSA_shortwave", "Albedo_WSA_shortwave"})
        THEN Outcome(FALSE, TRUE, NoImage)
        ELSE Outcome(FALSE, FALSE,
                 addBands(addBands(addBands(addBands(flt,
                     [broadband_albedo_mcd43a3 |-> black_sky_sw]),
                     [broadband_albedo_mcd43a3_masked |->
                         updateMaskBand(black_sky_sw, gm.mask)]),
                     [black_sky_albedo_mcd43a3 |-> black_sky_sw]),
                     [white_sky_albedo_mcd43a3 |-> white_sky_sw]))

\* comparison.py 88-97: process_image of process_mod10a1_collection
ComparisonProcessMod10a1(img, glacier_fn) ==
    LET snow_albedo == img["Snow_Albedo_Daily_Tile"]
        gm == create_glacier_mask(glacier_fn.outlines, TRUE, glacier_fn.fraction)
    IN  IF SelectFails(img, {"Snow_Albedo_Daily_Tile"})
        THEN Outcome(FALSE, TRUE, NoImage)
        ELSE Outcome(FALSE, FALSE,
                 addBands(addBands(img, [broadband_albedo_mod10a1 |-> snow_albedo]),
                          [broadband_albedo_mod10a1_masked |->
                              updateMaskBand(snow_albedo, gm.mask)]))

\* comparison.py 120-148: process_image of process_mcd43a3_collection; the
\* test `if band_names.contains(band)` is on a server-side object, which is
\* true in Python, so the first name of possible_bands is taken
ComparisonProcessMcd43a3(img, glacier_fn) ==
    LET albedo_band == "Albedo_BSA_Band1"
        albedo == img[albedo_band]
        gm == create_glacier_mask(glacier_fn.outlines, TRUE, glacier_fn.fraction)
    IN  IF SelectFails(img, {albedo_band})
        THEN Outcome(FALSE, TRUE, NoImage)
        ELSE Outcome(FALSE, FALSE,
                 addBands(addBands(img, [broadband_albedo_mcd43a3 |-> albedo]),
                          [broadband_albedo_mcd43a3_masked |->
                              updateMaskBand(albedo, gm.mask)]))

\* the function mapped over the collection
process_image(method, proc, img, glacier_fn, relaxed, terr) ==
    CASE method = "ren" -> process_ren_method(img, glacier_fn, relaxed, terr)
      [] method = "mod10a1" /\ proc = "comparison" ->
            ComparisonProcessMod10a1(img, glacier_fn)
      [] method = "mod10a1" /\ proc = "method" ->
            process_mod10a1_method(img, glacier_fn, relaxed)
      [] method = "mcd43a3" /\ proc = "comparison" ->
            ComparisonProcessMcd43a3(img, glacier_fn)
      [] OTHER -> process_mcd43a3_method(img, glacier_fn, relaxed)

\* metadata properties an image of the collection carries
SourceProperties == {"system:index", "system:time_start", "system:time_end"}

\* comparison.py 152: ee.Filter.notNull tests metadata properties
FilterNotNull(props, names) == names \subseteq props

RECURSIVE MapImages(_, _, _, _, _, _, _)
\* collection.map(process_image), each element keeping its system:time_start
MapImages(method, proc, col, k, glacier_fn, relaxed, terr) ==
    IF k > Len(col) THEN <<>>
    ELSE LET o == process_image(method, proc, col[k], glacier_fn, relaxed, terr)
             keep == ~(method = "mcd43a3" /\ proc = "comparison")
                     \/ FilterNotNull(SourceProperties, {"broadband_albedo_mcd43a3"})
         IN  (IF keep THEN <<[time_start |-> k, raised |-> o.raised, bands |-> o.bands]>>
              ELSE <<>>)
             \o MapImages(method, proc, col, k + 1, glacier_fn, relaxed, terr)

\* export_utils.py 48, 61, 74
AlbedoBand(method) ==
    CASE method = "ren" -> "broadband_albedo_ren_masked"
      [] method = "mod10a1" -> "broadband_albedo_mod10a1_masked"
      [] OTHER -> "broadband_albedo_mcd43a3_masked"

\* the QA bands the decoder of each product reads
QaBands(method) ==
    CASE method = "ren" -> {"state_1km"}
      [] method = "mod10a1" -> {"NDSI_Snow_Cover_Basic_QA",
                                "NDSI_Snow_Cover_Algorithm_Flags_QA"}
      [] OTHER -> {"BRDF_Albedo_Band_Mandatory_Quality_shortwave",
                   "BRDF_Albedo_Band_Mandatory_Quality_vis",
                   "BRDF_Albedo_Band_Mandatory_Quality_nir"}

WithoutBands(img, names) == [b \in (DOMAIN img) \ names |-> img[b]]

FlowMod09Full ==
    [state_1km |-> Px(4104), SolarZenith |-> Px(3000), SolarAzimuth |-> Px(18000),
     SensorZenith |-> Px(0), SensorAzimuth |-> Px(0),
     sur_refl_b01 |-> Px(8500), sur_refl_b02 |-> Px(8000), sur_refl_b03 |-> Px(8800),
     sur_refl_b04 |-> Px(8600), sur_refl_b05 |-> Px(4000), sur_refl_b07 |-> Px(1000)]

\* the same image under cloud (state_1km bits 0-1 = 01)
FlowMod09Cloudy == [FlowMod09Full EXCEPT !["state_1km"] = Px(4105)]

FlowMod10Full(b) ==
    [NDSI_Snow_Cover_Basic_QA |-> Px(b), NDSI_Snow_Cover_Algorithm_Flags_QA |-> Px(0),
     NDSI_Snow_Cover |-> Px(80), Snow_Albedo_Daily_Tile |-> Px(65)]

FlowMcd43Full(q) ==
    [BRDF_Albedo_Band_Mandatory_Quality_shortwave |-> Px(q),
     BRDF_Albedo_Band_Mandatory_Quality_vis |-> Px(q),
     BRDF_Albedo_Band_Mandatory_Quality_nir |-> Px(q),
     Albedo_BSA_Band1 |-> Px(300), Albedo_BSA_shortwave |-> Px(350),
     Albedo_WSA_shortwave |-> Px(380)]

\* images of each product: complete, without the QA bands, without the
\* albedo band
FlowImages(method) ==
    CASE method = "ren" ->
            { FlowMod09Full, FlowMod09Cloudy,
              WithoutBands(FlowMod09Full, QaBands("ren")) }
      [] method = "mod10a1" ->
            { FlowMod10Full(b) : b \in {0, 2} }
            \cup { WithoutBands(FlowMod10Full(b), QaBands("mod10a1")) : b \in {0, 2} }
            \cup { WithoutBands(FlowMod10Full(0), {"Snow_Albedo_Daily_Tile"}) }
      [] OTHER ->
            { FlowMcd43Full(q) : q \in {0, 2} }
            \cup { WithoutBands(FlowMcd43Full(q), QaBands("mcd43a3")) : q \in {0, 2} }
            \cup { WithoutBands(FlowMcd43Full(0), {"Albedo_BSA_Band1"}) }

FlowCollections(method) ==
    UNION { [1..n -> FlowImages(method)] : n \in 1..MaxImages }

NoResults == [raised |-> FALSE, images |-> <<>>]

\* ------------------------------------------------------------------------
\* Specification SpecFlow: one method from run_modular_comparison to the
\* rows returned by _process_method_collection
\* ------------------------------------------------------------------------

InitFlow ==
    /\ pc = "run_modular_comparison"
    /\ method_name \in {"ren", "mod10a1", "mcd43a3"}
    /\ processor \in IF method_name = "ren" THEN {"comparison"}
                     ELSE {"comparison", "method"}
    /\ list_eval \in {"per_image", "whole_list"}
    /\ collection \in FlowCollections(method_name)
    /\ relaxed_qa \in BOOLEAN
    /\ glacier = [func |-> "create_glacier_mask", outlines |-> TRUE, fraction |-> 100]
    /\ terrain = [slope |-> 0, aspect |-> 0]
    /\ results = NoResults
    /\ image_index = 0
    /\ stats_list = <<>>
    /\ image = NoImage
    /\ custom_params = <<>>
    /\ params = <<>>
    /\ qa_config = <<>>
    /\ preset_name = "none"
    /\ preset = <<>>
    /\ quality_mask = MaskedPx
    /\ filtered = NoImage
    /\ error = "none"
    /\ topo_img = NoImage
    /\ classified = NoImage
    /\ nb_snow = NoImage
    /\ nb_ice = NoImage
    /\ with_nb = NoImage
    /\ with_bb = NoImage
    /\ result = NoImage
    /\ brdf_surface = "none"
    /\ glacier_mask_raw = MaskedPx
    /\ UtilIdle

FlowFrame == <<image, relaxed_qa, filtered, qaVars, renVars, method_name, processor,
               list_eval, collection, utilVars>>

\* comparison.py 176-214 with process_*_collection: collection.map builds the
\* body of process_image in Python; an exception there leaves results[method]
\* = None, which line 217 drops
RunModularComparison ==
    /\ pc = "run_modular_comparison"
    /\ LET client_error ==
               process_image(method_name, processor, collection[1], glacier,
                             relaxed_qa, terrain).client_error
       IN  IF client_error
           THEN /\ results' = [raised |-> TRUE, images |-> <<>>]
                /\ error' = "AttributeError"
           ELSE /\ results' = [raised |-> FALSE,
                               images |-> MapImages(method_name, processor, collection,
                                                    1, glacier, relaxed_qa, terrain)]
                /\ UNCHANGED error
    /\ pc' = "export"
    /\ UNCHANGED <<FlowFrame, image_index, stats_list>>

\* export_utils.py 43-80: a method absent from results is not processed
ExportComparisonStats ==
    /\ pc = "export"
    /\ pc' = IF results.raised THEN "flow_done" ELSE "_process_method_collection"
    /\ image_index' = 0
    /\ stats_list' = <<>>
    /\ UNCHANGED <<FlowFrame, results, error>>

\* collection_list.get(i) and the getInfo calls on it raise when i is past
\* the end of the list or the image fails to evaluate; the server evaluates
\* either the one element or the whole list
GetFails(lst, i, eval) ==
    \/ i + 1 > Len(lst)
    \/ lst[i + 1].raised
    \/ eval = "whole_list" /\ \E k \in 1..Len(lst) : lst[k].raised

\* export_utils.py 127-183: one iteration of the loop over range(max_images)
ProcessMethodImage ==
    /\ pc = "_process_method_collection"
    /\ image_index < max_images
    /\ LET albedo_band == AlbedoBand(method_name)
       IN  IF GetFails(results.images, image_index, list_eval)
           THEN /\ error' = "EEException"
                /\ UNCHANGED stats_list
           ELSE LET img == results.images[image_index + 1]
                IN  /\ UNCHANGED error
                    /\ IF albedo_band \notin DOMAIN img.bands
                       THEN UNCHANGED stats_list
                       ELSE LET px == img.bands[albedo_band]
                                pixel_count == Bool01(px.ok)
                            IN  IF px.ok /\ pixel_count > 0
                                THEN stats_list' = Append(stats_list,
                                        [albedo_mean |-> px.v,
                                         pixel_count |-> pixel_count,
                                         method |-> method_name,
                                         system_time_start |-> img.time_start])
                                ELSE UNCHANGED stats_list
    /\ image_index' = image_index + 1
    /\ UNCHANGED <<pc, FlowFrame, results>>

\* export_utils.py 193-194
ReturnStatsList ==
    /\ pc = "_process_method_collection"
    /\ image_index = max_images
    /\ pc' = "flow_done"
    /\ UNCHANGED <<FlowFrame, results, error, image_index, stats_list>>

\* main.py 86: min(collection_size, 10)
max_process_limit == 10

\* main.py 254-282: the band name main hands to export_robust_collection
RobustAlbedoBand(method) ==
    CASE method = "ren" -> "broadband_albedo_ren"
      [] method = "mod10a1" -> "broadband_albedo_mod10a1"
      [] OTHER -> "broadband_albedo_mcd43a3"

\* main.py 114: albedo_band, albedo_band.replace('_masked', ''),
\* f'{albedo_band}_masked', in this order
BandCandidates(albedo_band) ==
    <<albedo_band, albedo_band, albedo_band \o "_masked">>

\* main.py 111-117: the first candidate among the band names, or "" (None)
AvailableBand(band_names, albedo_band) ==
    LET c == BandCandidates(albedo_band)
        found == { i \in 1..Len(c) : c[i] \in band_names }
    IN  IF found = {} THEN ""
        ELSE c[CHOOSE i \in found : \A j \in found : i <= j]

\* main.py 73-86
max_process ==
    IF Len(results.images) < max_process_limit THEN Len(results.images)
    ELSE max_process_limit

\* main.py 254-282 and 71-90: a method absent from results is not exported,
\* an empty collection returns an empty table
ExportRobustCollection ==
    /\ pc = "export"
    /\ pc' = IF results.raised \/ Len(results.images) = 0 THEN "flow_done"
             ELSE "export_robust_collection"
    /\ image_index' = 0
    /\ stats_list' = <<>>
    /\ UNCHANGED <<FlowFrame, results, error>>

\* main.py 92-163: one iteration of the loop over range(max_process)
RobustProcessImage ==
    /\ pc = "export_robust_collection"
    /\ image_index < max_process
    /\ IF GetFails(results.images, image_index, list_eval)
       THEN /\ error' = "EEException"
            /\ UNCHANGED stats_list
       ELSE LET img == results.images[image_index + 1]
                available_band == AvailableBand(DOMAIN img.bands,
                                                RobustAlbedoBand(method_name))
            IN  /\ UNCHANGED error
                /\ IF available_band = ""
                   THEN UNCHANGED stats_list
                   ELSE LET px == img.bands[available_band]
                            count_value == Bool01(px.ok)
                        IN  IF px.ok
                            THEN stats_list' = Append(stats_list,
                                    [albedo_mean |-> px.v,
                                     pixel_count |-> count_value,
                                     method |-> method_name,
                                     system_time_start |-> img.time_start])
                            ELSE UNCHANGED stats_list
    /\ image_index' = image_index + 1
    /\ UNCHANGED <<pc, FlowFrame, results>>

\* main.py 165-171
RobustReturn ==
    /\ pc = "export_robust_collection"
    /\ image_index = max_process
    /\ pc' = "flow_done"
    /\ UNCHANGED <<FlowFrame, results, error, image_index, stats_list>>

NextFlow ==
    \/ RunModularComparison
    \/ ExportComparisonStats
    \/ ProcessMethodImage
    \/ ReturnStatsList
    \/ ExportRobustCollection
    \/ RobustProcessImage
    \/ RobustReturn

SpecFlow == InitFlow /\ [][NextFlow]_vars

\* ------------------------------------------------------------------------
\* Properties of the workflow (checked under SpecFlow)
\* ------------------------------------------------------------------------

LacksQaBand(img) == ~(QaBands(method_name) \subseteq DOMAIN img)

\* C9: an image lacking the QA band its product's decoder reads contributes
\* no output observation (its processing ends in an error and it is skipped).
C9_MissingQaBandNoObservation ==
    \A k \in 1..Len(collection) :
        LacksQaBand(collection[k]) =>
            \A o \in 1..Len(stats_list) : stats_list[o].system_time_start # k

\* ------------------------------------------------------------------------
\* Specification SpecStage: one call of one stage function of ren_method.py
\* or of create_glacier_mask, on an image handed in directly
\* ------------------------------------------------------------------------

\* stored reflectances of bands 1, 2, 3, 4, 5, 7: green 0.5 / SWIR 0.1, the
\* two swapped, NDSI of exactly 0.4, all zero, green = -SWIR, and negative
\* sums with NDSI 0.8 and 0.2
StageProfiles ==
    { <<3000, 2500, 3500, 5000, 2000, 1000>>,
      <<100, 100, 100, -90, 100, -10>>,
      <<100, 100, 100, -60, 100, -40>>,
      <<3000, 2500, 3500, 1000, 2000, 5000>>,
      <<6000, 5500, 6500, 7000, 3500, 3000>>,
      <<0, 0, 0, 0, 0, 0>>,
      <<100, 100, 100, -100, 100, 100>> }

\* solar zenith up to grazing incidence (0.01 degree)
StageSolarZenithValues == {0, 3000, 6000, 8900, 9000}

StageImages ==
    { [state_1km |-> Px(4104), SolarZenith |-> Px(sz), SolarAzimuth |-> Px(18000),
       SensorZenith |-> Px(vz), SensorAzimuth |-> Px(va),
       sur_refl_b01 |-> Px(r[1]), sur_refl_b02 |-> Px(r[2]),
       sur_refl_b03 |-> Px(r[3]), sur_refl_b04 |-> Px(r[4]),
       sur_refl_b05 |-> Px(r[5]), sur_refl_b07 |-> Px(r[6])] :
        sz \in StageSolarZenithValues, vz \in {0, 3000}, va \in {0, 18000},
        r \in StageProfiles }

\* images as process_ren_method hands them to classify_snow_ice and to
\* apply_brdf_anisotropic_correction (sun at most 60 degrees from zenith)
StageTopoImages ==
    { topography_correction(img, terr) :
        img \in { i \in StageImages : i["SolarZenith"].v <= 6000 }, terr \in Terrains }

StageGlacierInputs ==
    [func : {"create_glacier_mask"}, asset : BOOLEAN, outlines : BOOLEAN,
     reference : BOOLEAN, fraction : {0, 49, 50, 51, 100},
     abundance_threshold : {NoThreshold, [given |-> TRUE, v |-> 25],
                            [given |-> TRUE, v |-> 75]}]

\* broadband images the glacier mask is applied to
StageBroadbandImages ==
    { [broadband_albedo_ren |-> Px(650000000)], [broadband_albedo_ren |-> MaskedPx] }

InitStage ==
    /\ pc \in {"topography_correction", "classify_snow_ice",
               "apply_brdf_anisotropic_correction", "create_glacier_mask",
               "filter_glacier_pixels"}
    /\ image \in CASE pc = "topography_correction" -> StageImages
                   [] pc = "classify_snow_ice" -> StageImages \cup StageTopoImages
                   [] pc = "apply_brdf_anisotropic_correction" ->
                         { classify_snow_ice(t) : t \in StageTopoImages }
                   [] pc = "filter_glacier_pixels" -> StageBroadbandImages
                   [] OTHER -> {NoImage}
    /\ terrain \in IF pc = "topography_correction" THEN Terrains
                   ELSE {[slope |-> 0, aspect |-> 0]}
    /\ brdf_surface \in IF pc = "apply_brdf_anisotropic_correction"
                        THEN {"snow", "ice"} ELSE {"none"}
    /\ glacier \in CASE pc = "create_glacier_mask" -> StageGlacierInputs
                     [] pc = "filter_glacier_pixels" ->
                           { g \in StageGlacierInputs : g.reference }
                     [] OTHER -> {[func |-> "none", fraction |-> 0]}
    /\ with_bb \in IF pc = "create_glacier_mask" THEN StageBroadbandImages
                   ELSE {NoImage}
    /\ relaxed_qa = FALSE
    /\ custom_params = <<>>
    /\ params = <<>>
    /\ qa_config = <<>>
    /\ preset_name = "none"
    /\ preset = <<>>
    /\ quality_mask = MaskedPx
    /\ filtered = NoImage
    /\ error = "none"
    /\ topo_img = NoImage
    /\ classified = NoImage
    /\ nb_snow = NoImage
    /\ nb_ice = NoImage
    /\ with_nb = NoImage
    /\ result = NoImage
    /\ glacier_mask_raw = MaskedPx
    /\ UtilIdle
    /\ method_name = "none"
    /\ processor = "none"
    /\ list_eval = "none"
    /\ collection = <<>>
    /\ results = NoResults
    /\ image_index = 0
    /\ stats_list = <<>>

StageFrame == <<image, relaxed_qa, filtered, qaVars, flowVars, terrain, glacier,
                with_nb, with_bb, brdf_surface>>

\* what the glacier_utils.py actions leave alone
GlacierUtilFrame == <<StageFrame, error, topo_img, classified, nb_snow, nb_ice, result,
                      glacier_mask_raw, moduleVars, workers, scriptVars,
                      comparisonVars, monitorVars>>

\* ren_method.py 94-154
StageTopographyCorrection ==
    /\ pc = "topography_correction"
    /\ topo_img' = topography_correction(image, terrain)
    /\ pc' = "topography_correction_done"
    /\ UNCHANGED <<utilVars, StageFrame, error, classified, nb_snow, nb_ice, result,
                   glacier_mask_raw>>

\* ren_method.py 222-265
StageClassifySnowIce ==
    /\ pc = "classify_snow_ice"
    /\ classified' = classify_snow_ice(image)
    /\ pc' = "classify_snow_ice_done"
    /\ UNCHANGED <<utilVars, StageFrame, error, topo_img, nb_snow, nb_ice, result,
                   glacier_mask_raw>>

\* ren_method.py 157-219
StageApplyBrdf ==
    /\ pc = "apply_brdf_anisotropic_correction"
    /\ IF brdf_surface = "snow"
       THEN /\ nb_snow' = apply_brdf_anisotropic_correction(image, "snow")
            /\ UNCHANGED nb_ice
       ELSE /\ nb_ice' = apply_brdf_anisotropic_correction(image, "ice")
            /\ UNCHANGED nb_snow
    /\ pc' = "apply_brdf_anisotropic_correction_done"
    /\ UNCHANGED <<utilVars, StageFrame, error, topo_img, classified, result, glacier_mask_raw>>

\* glacier_utils.py 71-123
StageCreateGlacierMask ==
    /\ pc = "create_glacier_mask"
    /\ LET r == create_glacier_mask_configured(glacier.asset, glacier.outlines,
                    glacier.reference, glacier.fraction, glacier.abundance_threshold)
       IN  IF r.raised
           THEN /\ error' = "AttributeError"
                /\ pc' = "create_glacier_mask_failed"
                /\ UNCHANGED glacier_mask_raw
           ELSE /\ glacier_mask_raw' = r.mask
                /\ pc' = "create_glacier_mask_done"
                /\ UNCHANGED error
    /\ UNCHANGED <<utilVars, StageFrame, topo_img, classified, nb_snow, nb_ice, result>>

\* ren_method.py 83-91: the mask applied to the broadband albedo
StageMaskAlbedo ==
    /\ pc = "create_glacier_mask_done"
    /\ result' = ReturnedImage(filtered, with_bb, glacier_mask_raw)
    /\ pc' = "masked_albedo_done"
    /\ UNCHANGED <<utilVars, StageFrame, error, topo_img, classified, nb_snow, nb_ice,
                   glacier_mask_raw>>

\* glacier_utils.py 249-267, on the input image
StageFilterGlacierPixels ==
    /\ pc = "filter_glacier_pixels"
    /\ glacier_filtered' = filter_glacier_pixels(image, glacier.asset, glacier.outlines,
                                glacier.fraction, glacier.abundance_threshold)
    /\ pc' = "filter_glacier_pixels_again"
    /\ UNCHANGED <<GlacierUtilFrame, glacier_refiltered>>

\* glacier_utils.py 249-267, on the image it returned
StageFilterGlacierPixelsAgain ==
    /\ pc = "filter_glacier_pixels_again"
    /\ glacier_refiltered' = filter_glacier_pixels(glacier_filtered, glacier.asset,
                                  glacier.outlines, glacier.fraction,
                                  glacier.abundance_threshold)
    /\ pc' = "filter_glacier_pixels_done"
    /\ UNCHANGED <<GlacierUtilFrame, glacier_filtered>>

NextStage ==
    \/ StageTopographyCorrection
    \/ StageClassifySnowIce
    \/ StageApplyBrdf
    \/ StageCreateGlacierMask
    \/ StageMaskAlbedo
    \/ StageFilterGlacierPixels
    \/ StageFilterGlacierPixelsAgain

SpecStage == InitStage /\ [][NextStage]_vars

\* ------------------------------------------------------------------------
\* Properties of the stage functions (checked under SpecStage)
\* ------------------------------------------------------------------------

ClassifyDone == pc = "classify_snow_ice_done"

\* the green and shortwave-infrared reflectances entering the index
\* (units of 0.00001)
GreenUsed ==
    IF "sur_refl_b04_topo" \in DOMAIN image
    THEN image["sur_refl_b04_topo"].v ELSE 10 * image["sur_refl_b04"].v

SwirUsed == 10 * image["sur_refl_b07"].v

\* a / b > 4 / 10 for integers a and b # 0
QuotientAboveFourTenths(a, b) ==
    IF b > 0 THEN 10 * a > 4 * b ELSE 10 * a < 4 * b

\* C11: where green + SWIR # 0, snow_mask is 1 exactly when
\* (green - SWIR) / (green + SWIR) > 0.4 (an NDSI of exactly 0.4 is ice);
\* green 0.5 / SWIR 0.1 is snow, and the swapped pair has the negated NDSI and
\* is not snow.
C11_SnowIffNdsiAboveThreshold ==
    (ClassifyDone /\ GreenUsed + SwirUsed # 0) =>
        LET ndsi == classified["NDSI"]
            snow_mask == classified["snow_mask"]
        IN  /\ ndsi.ok /\ snow_mask.ok
            /\ ndsi.v.num = GreenUsed - SwirUsed
            /\ ndsi.v.den = GreenUsed + SwirUsed
            /\ snow_mask.v = 1 <=>
                   QuotientAboveFourTenths(GreenUsed - SwirUsed, GreenUsed + SwirUsed)
            /\ (GreenUsed = 50000 /\ SwirUsed = 10000) =>
                   /\ snow_mask.v = 1
                   /\ 3 * ndsi.v.num = 2 * ndsi.v.den
            /\ (GreenUsed = 10000 /\ SwirUsed = 50000) =>
                   /\ snow_mask.v = 0
                   /\ 3 * ndsi.v.num = -2 * ndsi.v.den
            /\ (GreenUsed = 70000 /\ SwirUsed = 30000) => snow_mask.v = 0

\* a pixel whose NDSI is exactly 0.4, classified
C11_Witness ==
    /\ ClassifyDone
    /\ GreenUsed = 70000
    /\ SwirUsed = 30000
    /\ classified["snow_mask"] = Px(0)

\* C12: where green + SWIR = 0, classify_snow_ice yields a masked NDSI and a
\* masked snow_mask.
C12_ZeroSumIsMasked ==
    (ClassifyDone /\ GreenUsed + SwirUsed = 0) =>
        /\ ~classified["NDSI"].ok
        /\ ~classified["snow_mask"].ok

\* ------------------------------------------------------------------------
\* Further properties of the Ren pipeline (checked under SpecRen)
\* ------------------------------------------------------------------------

Classified == pc \notin {"quality_filter", "topography_correction", "classify_snow_ice"}

\* the topography-corrected shortwave-infrared bands an image can carry
TopoSwirBands == {"sur_refl_b06_topo", "sur_refl_b07_topo"}

\* C13: in process_ren_method NDSI is computed from the topography-corrected
\* green band and a topography-corrected shortwave-infrared band of the same
\* image (the image handed to classify_snow_ice carries topography-corrected
\* bands).
C13_NdsiFromCorrectedBands ==
    (Classified /\ classified["NDSI"].ok) =>
        /\ "sur_refl_b04_topo" \in DOMAIN topo_img
        /\ \E swir \in TopoSwirBands \cap DOMAIN topo_img :
              LET g == topo_img["sur_refl_b04_topo"].v
                  s == topo_img[swir].v
              IN  g + s # 0 =>
                     classified["NDSI"].v = [num |-> g - s, den |-> g + s]

\* ------------------------------------------------------------------------
\* Properties of apply_brdf_anisotropic_correction (checked under SpecStage)
\* ------------------------------------------------------------------------

BrdfDone == pc = "apply_brdf_anisotropic_correction_done"

\* the image the BRDF stage returned
BrdfOut == IF brdf_surface = "snow" THEN nb_snow ELSE nb_ice

\* corrected sensor zenith 0 and relative azimuth 0, snow model
NadirSnowCase ==
    /\ BrdfDone
    /\ brdf_surface = "snow"
    /\ image["sensor_zenith_corrected"] = Px(0)
    /\ image["SensorAzimuth"].v - image["SolarAzimuth"].v = 0
    /\ SNOW_BRDF_COEFFICIENTS["b1"] =
           [c1 |-> 83, c2 |-> 384, c3 |-> 452, theta_c |-> 34527]

\* C14 as stated: at corrected sensor zenith 0 and relative azimuth 0 the
\* band-1 snow anisotropy term is c1 + c2, and narrowband_b1 is the
\* topography-corrected reflectance minus (c1 + c2).
C14_NadirTermIsC1PlusC2 ==
    NadirSnowCase =>
        nb_snow["narrowband_b1"] = Px(image["sur_refl_b01_topo"].v - (83 + 384))

\* C14 amended: at corrected sensor zenith 0 and relative azimuth 0 the
\* band-1 snow anisotropy term is c1 + c2 + c3 (both cosines are 1), and
\* narrowband_b1 is the topography-corrected reflectance minus that sum.
C14_NadirTermIsC1PlusC2PlusC3 ==
    NadirSnowCase =>
        nb_snow["narrowband_b1"] = Px(image["sur_refl_b01_topo"].v - (83 + 384 + 452))

\* the nadir case on a pixel of reflectance 0.30
C14_Witness ==
    /\ NadirSnowCase
    /\ image["sur_refl_b01_topo"] = Px(30000)
    /\ nb_snow["narrowband_b1"] = Px(29081)

\* band number, topography-corrected band and narrow-band albedo of each
\* spectral band
BandTriples ==
    { <<"b1", "sur_refl_b01_topo", "narrowband_b1">>,
      <<"b2", "sur_refl_b02_topo", "narrowband_b2">>,
      <<"b3", "sur_refl_b03_topo", "narrowband_b3">>,
      <<"b4", "sur_refl_b04_topo", "narrowband_b4">>,
      <<"b5", "sur_refl_b05_topo", "narrowband_b5">>,
      <<"b7", "sur_refl_b07_topo", "narrowband_b7">> }

SurfaceTriples(surface) ==
    IF surface = "snow" THEN { t \in BandTriples : t[1] # "b4" } ELSE BandTriples

\* C15: the snow model adds exactly narrowband_b1, b2, b3, b5, b7 and the ice
\* model exactly narrowband_b1, b2, b3, b4, b5, b7; each narrowband_bK is the
\* topography-corrected reflectance of band K minus the anisotropy term with
\* the band-K coefficients of the selected table, and every lookup succeeds.
C15_BandsPairedWithOwnCoefficients ==
    BrdfDone =>
        LET table == IF brdf_surface = "snow" THEN SNOW_BRDF_COEFFICIENTS
                     ELSE ICE_BRDF_COEFFICIENTS
            theta_v == image["sensor_zenith_corrected"].v
            phi_rel == image["SensorAzimuth"].v - image["SolarAzimuth"].v
        IN  /\ DOMAIN BrdfOut =
                   DOMAIN image \cup { t[3] : t \in SurfaceTriples(brdf_surface) }
            /\ \A b \in DOMAIN image : BrdfOut[b] = image[b]
            /\ \A t \in SurfaceTriples(brdf_surface) :
                  /\ t[1] \in DOMAIN table
                  /\ t[3] \notin DOMAIN image
                  /\ BrdfOut[t[3]] =
                         Px(image[t[2]].v
                            - (table[t[1]].c1
                               + (table[t[1]].c2 * Cos(theta_v)) \div 10000
                               + (table[t[1]].c3 * Cos(phi_rel)) \div 10000
                               + (table[t[1]].theta_c * Radians(theta_v)) \div 10000))

\* the snow model on a pixel whose band-4 and band-5 reflectances differ
C15_Witness ==
    /\ BrdfDone
    /\ brdf_surface = "snow"
    /\ nb_snow["narrowband_b5"].ok
    /\ "narrowband_b4" \notin DOMAIN nb_snow
    /\ image["sur_refl_b04_topo"] # image["sur_refl_b05_topo"]

\* ------------------------------------------------------------------------
\* The coefficient tables and band lists of config/settings.py
\* ------------------------------------------------------------------------

SixBands == {"b1", "b2", "b3", "b4", "b5", "b7"}

FiveBands == SixBands \ {"b4"}

\* the reflectance band of a band number
ReflName(bn) ==
    CASE bn = "b1" -> "sur_refl_b01" [] bn = "b2" -> "sur_refl_b02"
      [] bn = "b3" -> "sur_refl_b03" [] bn = "b4" -> "sur_refl_b04"
      [] bn = "b5" -> "sur_refl_b05" [] bn = "b7" -> "sur_refl_b07"

\* the topography-corrected band of a band number
TopoName(bn) ==
    CASE bn = "b1" -> "sur_refl_b01_topo" [] bn = "b2" -> "sur_refl_b02_topo"
      [] bn = "b3" -> "sur_refl_b03_topo" [] bn = "b4" -> "sur_refl_b04_topo"
      [] bn = "b5" -> "sur_refl_b05_topo" [] bn = "b7" -> "sur_refl_b07_topo"

\* C16: both ice tables have an entry for each of b1, b2, b3, b4, b5, b7; both
\* snow tables have an entry for each of b1, b2, b3, b5, b7 and none for b4;
\* the band lists name exactly those bands in the same order.
C16_CoefficientTablesCoverBands ==
    /\ DOMAIN ICE_BRDF_COEFFICIENTS = SixBands
    /\ DOMAIN ICE_COEFFICIENTS = SixBands \cup {"constant"}
    /\ DOMAIN SNOW_BRDF_COEFFICIENTS = FiveBands
    /\ DOMAIN SNOW_COEFFICIENTS = FiveBands \cup {"constant"}
    /\ BAND_NUMS_ALL = <<"b1", "b2", "b3", "b4", "b5", "b7">>
    /\ BAND_NUMS_SNOW = <<"b1", "b2", "b3", "b5", "b7">>
    /\ REFL_BANDS = [i \in 1..6 |-> ReflName(BAND_NUMS_ALL[i])]
    /\ TOPO_BANDS_ALL = [i \in 1..6 |-> TopoName(BAND_NUMS_ALL[i])]
    /\ NARROWBAND_ALL = [i \in 1..6 |-> NarrowbandName(BAND_NUMS_ALL[i])]
    /\ TOPO_BANDS_SNOW = [i \in 1..5 |-> TopoName(BAND_NUMS_SNOW[i])]
    /\ NARROWBAND_SNOW = [i \in 1..5 |-> NarrowbandName(BAND_NUMS_SNOW[i])]
    /\ BrdfDone =>
          { b \in DOMAIN BrdfOut : b \notin DOMAIN image } =
              { NarrowbandName(bn) :
                  bn \in IF brdf_surface = "snow" THEN DOMAIN SNOW_BRDF_COEFFICIENTS
                         ELSE DOMAIN ICE_BRDF_COEFFICIENTS }

\* both tables indexed by a call of the BRDF stage
C16_Witness ==
    /\ BrdfDone
    /\ brdf_surface = "snow"
    /\ DOMAIN nb_snow \ DOMAIN image =
          {"narrowband_b1", "narrowband_b2", "narrowband_b3", "narrowband_b5",
           "narrowband_b7"}

\* ------------------------------------------------------------------------
\* Properties of topography_correction (checked under SpecStage)
\* ------------------------------------------------------------------------

TopoDone == pc = "topography_correction_done"

\* C17: on flat terrain (slope 0), for every aspect, sensor geometry and solar
\* zenith with non-zero cosine, each *_topo band equals the descaled input
\* reflectance of the same band (correction factor 1) and the corrected sensor
\* and solar zenith angles equal the uncorrected ones.
C17_FlatTerrainIsIdentity ==
    (TopoDone /\ terrain.slope = 0 /\ Cos(image["SolarZenith"].v) # 0) =>
        /\ \A bn \in SixBands :
              topo_img[TopoName(bn)] = Px(10 * image[ReflName(bn)].v)
        /\ topo_img["sensor_zenith_corrected"] = image["SensorZenith"]
        /\ topo_img["solar_zenith_corrected"] = image["SolarZenith"]
        /\ \A b \in DOMAIN image : topo_img[b] = image[b]

\* reflectance 0.30 on flat terrain with a non-zero aspect, sun 60 degrees
\* from zenith and an oblique view
C17_Witness ==
    /\ TopoDone
    /\ terrain = [slope |-> 0, aspect |-> 18000]
    /\ image["SolarZenith"] = Px(6000)
    /\ image["SensorZenith"] = Px(3000)
    /\ image["sur_refl_b01"] = Px(3000)
    /\ topo_img["sur_refl_b01_topo"] = Px(30000)

\* C18: where the cosine of the solar zenith used as divisor is zero or near
\* zero (sun within one degree of the horizon), the topography-corrected bands
\* are masked.
C18_GrazingSunIsMasked ==
    (TopoDone /\ Cos(image["SolarZenith"].v) \in -175..175) =>
        \A bn \in SixBands : ~topo_img[TopoName(bn)].ok

\* ------------------------------------------------------------------------
\* Properties of the glacier mask (checked under SpecStage and SpecRen)
\* ------------------------------------------------------------------------

GlacierMaskDone == pc \in {"create_glacier_mask_done", "masked_albedo_done"}

\* an outline is supplied and the glacier asset is enabled
OutlineSupplied == glacier.outlines /\ glacier.asset

RenReturned == pc \in {"ren_done", "ren_failed"}

\* C20: when no glacier outline is supplied (or the glacier asset is
\* disabled), the glacier-masking stage of process_ren_method called with
\* create_glacier_mask completes without error and masks no pixel.
C20_NoOutlineIsPassthrough ==
    (RenReturned /\ glacier.func = "create_glacier_mask"
        /\ (~glacier.outlines \/ ~GLACIER_ASSET_DEFINED)) =>
        /\ pc = "ren_done"
        /\ error = "none"
        /\ result["broadband_albedo_ren_masked"] = with_bb["broadband_albedo_ren"]

\* ------------------------------------------------------------------------
\* Specification SpecComparison: run_modular_comparison over all the methods
\* of the methods dictionary
\* ------------------------------------------------------------------------

\* comparison.py 179, 191, 203: the keys run_modular_comparison looks up
MethodNames == {"ren", "mod10a1", "mcd43a3"}

\* the methods dictionaries a caller can pass: any keys, boolean values
MethodSelections == UNION { [keys -> BOOLEAN] : keys \in SUBSET MethodNames }

\* methods.get(name, False)
MethodsGet(selection, name) ==
    IF name \in DOMAIN selection THEN selection[name] ELSE FALSE

\* comparison.py 44, 82, 114: the glacier function the collections use
ComparisonGlacier == [func |-> "create_glacier_mask", outlines |-> TRUE, fraction |-> 100]

\* process_<name>_collection raises: Earth Engine fails to build the
\* collection, or the body of process_image raises inside collection.map,
\* which for process_ren_method is its create_glacier_mask_func call
CollectionRaises(name, failures) ==
    \/ name \in failures
    \/ name = "ren" /\ GlacierMaskRaw(ComparisonGlacier).raised

\* results[name] = value
DictSet(dict, name, value) ==
    [k \in DOMAIN dict \cup {name} |-> IF k = name THEN value ELSE dict[k]]

\* the block with its exception handler removed
ProcessSelected_unguarded(dict, selection, name, failures) ==
    IF ~MethodsGet(selection, name)
    THEN [results |-> dict, propagated |-> "none"]
    ELSE IF CollectionRaises(name, failures)
         THEN [results |-> dict, propagated |-> "Exception"]
         ELSE [results |-> DictSet(dict, name, "ImageCollection"), propagated |-> "none"]

\* comparison.py 179-188, 191-200, 203-212: one `if methods.get(...)` block;
\* the inner handler stores None and lets nothing out
ProcessSelected(dict, selection, name, failures) ==
    IF ~MethodsGet(selection, name)
    THEN [results |-> dict, propagated |-> "none"]
    ELSE IF CollectionRaises(name, failures)
         THEN [results |-> DictSet(dict, name, "None"), propagated |-> "none"]
         ELSE [results |-> DictSet(dict, name, "ImageCollection"), propagated |-> "none"]

\* comparison.py 215: {k: v for k, v in results.items() if v is not None}
FilterNone(dict) ==
    [k \in { n \in DOMAIN dict : dict[n] # "None" } |-> dict[k]]

InitComparison ==
    /\ pc = "process_ren"
    /\ methods \in MethodSelections
    /\ env_failures \in SUBSET MethodNames
    /\ results_dict = <<>>
    /\ propagated = "none"
    /\ relaxed_qa \in BOOLEAN
    /\ image = NoImage
    /\ filtered = NoImage
    /\ error = "none"
    /\ QaIdle
    /\ RenIdle
    /\ FlowIdle
    /\ GlacierUtilIdle
    /\ ModuleIdle
    /\ WorkersIdle
    /\ ScriptIdle
    /\ MonitorIdle

ComparisonFrame == <<image, relaxed_qa, filtered, error, qaVars, renVars, flowVars,
                     glacier_filtered, glacier_refiltered, moduleVars, workers,
                     scriptVars, methods, env_failures, monitorVars>>

\* one block of lines 179-212; an exception that leaves the block reaches the
\* outer handler of lines 224-226, which raises it again
ComparisonBlock(name, next_pc) ==
    LET after == ProcessSelected(results_dict, methods, name, env_failures)
    IN  /\ results_dict' = after.results
        /\ propagated' = after.propagated
        /\ pc' = IF after.propagated = "none" THEN next_pc ELSE "comparison_raised"
        /\ UNCHANGED ComparisonFrame

\* lines 179-188
ProcessRenBlock ==
    /\ pc = "process_ren"
    /\ ComparisonBlock("ren", "process_mod10a1")

\* lines 191-200
ProcessMod10a1Block ==
    /\ pc = "process_mod10a1"
    /\ ComparisonBlock("mod10a1", "process_mcd43a3")

\* lines 203-212
ProcessMcd43a3Block ==
    /\ pc = "process_mcd43a3"
    /\ ComparisonBlock("mcd43a3", "filter_none")

\* lines 215-222
ComparisonReturn ==
    /\ pc = "filter_none"
    /\ results_dict' = FilterNone(results_dict)
    /\ pc' = "comparison_returned"
    /\ UNCHANGED <<ComparisonFrame, propagated>>

NextComparison ==
    \/ ProcessRenBlock
    \/ ProcessMod10a1Block
    \/ ProcessMcd43a3Block
    \/ ComparisonReturn

SpecComparison == InitComparison /\ [][NextComparison]_vars

\* the selected methods whose collection function raises
SelectedRaising ==
    { n \in MethodNames : MethodsGet(methods, n)
                           /\ CollectionRaises(n, env_failures) }

\* the selected methods whose collection function returns
SelectedReturning ==
    { n \in MethodNames : MethodsGet(methods, n)
                           /\ ~CollectionRaises(n, env_failures) }

\* C27: run_modular_comparison never ends with an exception of a method, it
\* always reaches its return, and the keys of the dictionary it returns are
\* exactly the selected methods whose processing did not raise
C27_FailuresIsolatedPerMethod ==
    /\ propagated = "none"
    /\ pc # "comparison_raised"
    /\ pc = "comparison_returned" => DOMAIN results_dict = SelectedReturning

\* C27 witness: two methods are selected, one of them raises, a third is not
\* selected, and the call has returned the other one alone
C27_Witness ==
    /\ pc = "comparison_returned"
    /\ "mod10a1" \in SelectedRaising
    /\ "mcd43a3" \in SelectedReturning
    /\ "ren" \in DOMAIN methods /\ ~methods["ren"]
    /\ DOMAIN results_dict = {"mcd43a3"}

\* ------------------------------------------------------------------------
\* Properties of filter_glacier_pixels (checked under SpecStage)
\* ------------------------------------------------------------------------

FilteredTwice == pc = "filter_glacier_pixels_done"

\* C21: filtering an already glacier-filtered image with the same outline
\* and threshold gives, band by band, the validity and the value of
\* filtering once
C21_GlacierMaskingIdempotent ==
    FilteredTwice =>
        /\ DOMAIN glacier_refiltered = DOMAIN glacier_filtered
        /\ \A b \in DOMAIN glacier_filtered :
              /\ glacier_refiltered[b].ok = glacier_filtered[b].ok
              /\ glacier_filtered[b].ok =>
                    glacier_refiltered[b].v = glacier_filtered[b].v

\* a valid pixel whose fraction passes a threshold it does not equal,
\* filtered twice
C21_Witness ==
    /\ FilteredTwice
    /\ glacier.asset /\ glacier.outlines
    /\ glacier.fraction = 51
    /\ image["broadband_albedo_ren"].ok
    /\ glacier_refiltered["broadband_albedo_ren"].ok

\* ------------------------------------------------------------------------
\* Properties of the statistics step (checked under SpecFlow)
\* ------------------------------------------------------------------------

\* the bands the method's retrieval reads
MethodBands(method) ==
    CASE method = "ren" -> RenRequiredBands
      [] method = "mod10a1" -> QaBands(method) \cup {"NDSI_Snow_Cover",
                                                     "Snow_Albedo_Daily_Tile"}
      [] OTHER -> QaBands(method) \cup {"Albedo_BSA_Band1", "Albedo_BSA_shortwave",
                                        "Albedo_WSA_shortwave"}

CompleteImage(img) == MethodBands(method_name) \subseteq DOMAIN img

\* the pixel of a complete image is invalid after the quality filter of its
\* product under the selected policy
InvalidAfterQualityFilter(img) ==
    /\ CompleteImage(img)
    /\ CASE method_name = "ren" ->
               ~quality_filter_mod09a1(img, relaxed_qa, <<>>)["sur_refl_b01"].ok
         [] method_name = "mod10a1" ->
               ~apply_mod10a1_quality_filter(img,
                    IF relaxed_qa THEN Mod10Relaxed ELSE Mod10Standard)["NDSI_Snow_Cover"].ok
         [] OTHER ->
               ~apply_mcd43a3_quality_filter(img, relaxed_qa)["Albedo_BSA_shortwave"].ok

HasRow(k) == \E o \in 1..Len(stats_list) : stats_list[o].system_time_start = k

FlowDone == pc = "flow_done"

\* C22: when the pixel of an image is invalid after quality filtering, the
\* method's processing raises no error, the image contributes no observation
\* row, and every other complete image with a valid pixel still contributes
\* its row
C22_EmptyMaskIsZeroCount ==
    FlowDone =>
        \A k \in 1..Len(collection) :
            InvalidAfterQualityFilter(collection[k]) =>
                /\ ~results.raised
                /\ ~HasRow(k)
                /\ \A j \in 1..Len(collection) :
                      (CompleteImage(collection[j])
                         /\ ~InvalidAfterQualityFilter(collection[j])) => HasRow(j)

\* ------------------------------------------------------------------------
\* Specification SpecModule: a caller making a sequence of calls into the
\* package, with the dictionaries and lists of the Python process as state
\* ------------------------------------------------------------------------

\* number of calls and mutations the caller makes
MaxCalls == 4

\* the module-level objects the functions read: mod10a1_method.py 22-62,
\* settings.py 18-69 and 158-175
ModuleObjects ==
    << [site |-> "mod10a1_method", key |-> "QA_CONFIG.STANDARD", value |-> Mod10Standard],
       [site |-> "mod10a1_method", key |-> "QA_CONFIG_RELAXED.STANDARD",
        value |-> Mod10Relaxed],
       [site |-> "mod10a1_method", key |-> "QA_CONFIG.BIT_MAPPING", value |-> BIT_MAPPING],
       [site |-> "settings", key |-> "SNOW_BRDF_COEFFICIENTS",
        value |-> SNOW_BRDF_COEFFICIENTS],
       [site |-> "settings", key |-> "ICE_BRDF_COEFFICIENTS",
        value |-> ICE_BRDF_COEFFICIENTS],
       [site |-> "settings", key |-> "SNOW_COEFFICIENTS", value |-> SNOW_COEFFICIENTS],
       [site |-> "settings", key |-> "ICE_COEFFICIENTS", value |-> ICE_COEFFICIENTS],
       [site |-> "settings", key |-> "REFL_BANDS", value |-> REFL_BANDS],
       [site |-> "settings", key |-> "TOPO_BANDS_ALL", value |-> TOPO_BANDS_ALL],
       [site |-> "settings", key |-> "TOPO_BANDS_SNOW", value |-> TOPO_BANDS_SNOW] >>

\* a module-level name looked up at call time
ModuleObject(objs, key) ==
    objs[CHOOSE i \in 1..Len(objs) : objs[i].site # "create_relaxed_filter_preset"
                                     /\ objs[i].key = key].value

\* the key of `presets` that presets.get(preset_name, presets['moderate'])
\* returns the value of
PresetKey(name) == IF name \in DOMAIN presets THEN name ELSE "moderate"

\* create_relaxed_filter_preset with `presets` built once and kept: a later
\* call returns the dictionary an earlier call returned
create_relaxed_filter_preset_call_shared(objs, name) ==
    LET earlier == { i \in 1..Len(objs) :
                        /\ objs[i].site = "create_relaxed_filter_preset"
                        /\ objs[i].key = PresetKey(name) }
    IN  IF earlier # {}
        THEN [heap |-> objs, ref |-> CHOOSE i \in earlier : \A j \in earlier : i <= j]
        ELSE [heap |-> Append(objs, [site |-> "create_relaxed_filter_preset",
                                     key |-> PresetKey(name),
                                     value |-> create_relaxed_filter_preset(name)]),
              ref |-> Len(objs) + 1]

\* quality_filters.py 245-272: the dictionary literal is evaluated in every
\* call, so the dictionary returned is a new object
create_relaxed_filter_preset_call(objs, name) ==
    [heap |-> Append(objs, [site |-> "create_relaxed_filter_preset",
                            key |-> PresetKey(name),
                            value |-> create_relaxed_filter_preset(name)]),
     ref |-> Len(objs) + 1]

\* quality_filters.py 77-100: params is a new dictionary, and update() writes
\* to it, not to custom_params
quality_filter_mod09a1_call(objs, relaxed, custom_ref) ==
    LET custom == IF custom_ref = 0 THEN <<>> ELSE objs[custom_ref].value
    IN  [heap |-> objs, params |-> Mod09Params(relaxed, custom)]

\* mod10a1_method.py 138-142, 157, 170, 244-245: the configuration is the
\* caller's, or the module-level one, and is only read
create_comprehensive_quality_mask_call(objs, key, config) ==
    [heap |-> objs,
     qa_config |-> IF key = "custom" THEN config ELSE ModuleObject(objs, key)]

\* a caller's own MOD10A1 configuration
CustomMod10Config == [Mod10Standard EXCEPT !.basicLevel = "all"]

\* what a caller writes into a dictionary it was handed
CallerWrites == { [key |-> "solar_zenith_max", v |-> 90],
                  [key |-> "cloud_state_threshold", v |-> 3] }

\* the image the stages are called on
ModuleStageImage ==
    classify_snow_ice(topography_correction(FlowMod09Full, [slope |-> 0, aspect |-> 0]))

ModulePcs == {"caller", "create_relaxed_filter_preset_returned",
              "quality_filter_mod09a1_returned", "preset_mutated",
              "create_comprehensive_quality_mask_returned",
              "apply_brdf_anisotropic_correction_returned"}

InitModule ==
    /\ pc = "caller"
    /\ heap = ModuleObjects
    /\ held_preset = 0
    /\ first_preset = <<>>
    /\ calls = 0
    /\ image = ModuleStageImage
    /\ relaxed_qa = FALSE
    /\ filtered = NoImage
    /\ error = "none"
    /\ QaIdle
    /\ RenIdle
    /\ FlowIdle
    /\ GlacierUtilIdle
    /\ WorkersIdle
    /\ ScriptIdle
    /\ ComparisonIdle
    /\ MonitorIdle

ModuleFrame == <<image, filtered, error, quality_mask, flowVars, glacier_filtered,
                 glacier_refiltered, workers, scriptVars, comparisonVars, monitorVars, terrain, glacier, topo_img, classified, with_nb,
                 with_bb, result, glacier_mask_raw>>

\* preset = create_relaxed_filter_preset(preset_name)
CallCreateRelaxedFilterPreset ==
    /\ pc \in ModulePcs
    /\ calls < MaxCalls
    /\ \E name \in PresetNames :
          LET r == create_relaxed_filter_preset_call(heap, name)
          IN  /\ heap' = r.heap
              /\ held_preset' = r.ref
              /\ preset_name' = name
              /\ preset' = r.heap[r.ref].value
              /\ first_preset' = IF PresetKey(name) \in DOMAIN first_preset
                                 THEN first_preset
                                 ELSE first_preset @@ (PresetKey(name) :> preset')
    /\ calls' = calls + 1
    /\ pc' = "create_relaxed_filter_preset_returned"
    /\ UNCHANGED <<ModuleFrame, relaxed_qa, custom_params, params, qa_config,
                   nb_snow, nb_ice, brdf_surface>>

\* the caller assigns to a key of the preset it holds
CallerMutatesPreset ==
    /\ pc \in ModulePcs
    /\ calls < MaxCalls
    /\ held_preset # 0
    /\ \E w \in CallerWrites :
          heap' = [heap EXCEPT ![held_preset].value[w.key] = w.v]
    /\ calls' = calls + 1
    /\ pc' = "preset_mutated"
    /\ UNCHANGED <<ModuleFrame, relaxed_qa, custom_params, params, qa_config,
                   preset_name, preset, held_preset, first_preset, nb_snow, nb_ice,
                   brdf_surface>>

\* quality_filter_mod09a1(image, relaxed) or
\* quality_filter_mod09a1(image, relaxed, custom_params=preset)
CallQualityFilterMod09 ==
    /\ pc \in ModulePcs
    /\ calls < MaxCalls
    /\ \E relaxed \in BOOLEAN, custom_ref \in {0, held_preset} :
          LET r == quality_filter_mod09a1_call(heap, relaxed, custom_ref)
          IN  /\ heap' = r.heap
              /\ params' = r.params
              /\ relaxed_qa' = relaxed
              /\ custom_params' = IF custom_ref = 0 THEN <<>> ELSE heap[custom_ref].value
    /\ calls' = calls + 1
    /\ pc' = "quality_filter_mod09a1_returned"
    /\ UNCHANGED <<ModuleFrame, qa_config, preset_name, preset, held_preset,
                   first_preset, nb_snow, nb_ice, brdf_surface>>

\* create_standard_quality_mask, create_relaxed_quality_mask, or
\* create_comprehensive_quality_mask with the caller's configuration
CallCreateComprehensiveQualityMask ==
    /\ pc \in ModulePcs
    /\ calls < MaxCalls
    /\ \E key \in {"QA_CONFIG.STANDARD", "QA_CONFIG_RELAXED.STANDARD", "custom"} :
          LET r == create_comprehensive_quality_mask_call(heap, key, CustomMod10Config)
          IN  /\ heap' = r.heap
              /\ qa_config' = r.qa_config
    /\ calls' = calls + 1
    /\ pc' = "create_comprehensive_quality_mask_returned"
    /\ UNCHANGED <<ModuleFrame, relaxed_qa, custom_params, params, preset_name, preset,
                   held_preset, first_preset, nb_snow, nb_ice, brdf_surface>>

\* ren_method.py 157-219: the stage reads the band lists and the tables
CallApplyBrdf ==
    /\ pc \in ModulePcs
    /\ calls < MaxCalls
    /\ \E surface \in {"snow", "ice"} :
          /\ brdf_surface' = surface
          /\ IF surface = "snow"
             THEN /\ nb_snow' = apply_brdf_anisotropic_correction(image, "snow")
                  /\ UNCHANGED nb_ice
             ELSE /\ nb_ice' = apply_brdf_anisotropic_correction(image, "ice")
                  /\ UNCHANGED nb_snow
    /\ calls' = calls + 1
    /\ pc' = "apply_brdf_anisotropic_correction_returned"
    /\ UNCHANGED <<ModuleFrame, relaxed_qa, custom_params, params, qa_config,
                   preset_name, preset, heap, held_preset, first_preset>>

NextModule ==
    \/ CallCreateRelaxedFilterPreset
    \/ CallerMutatesPreset
    \/ CallQualityFilterMod09
    \/ CallCreateComprehensiveQualityMask
    \/ CallApplyBrdf

SpecModule == InitModule /\ [][NextModule]_vars

\* ------------------------------------------------------------------------
\* Properties of the module-level objects (checked under SpecModule)
\* ------------------------------------------------------------------------

\* the module-level objects hold the values they were defined with
ModuleObjectsIntact ==
    \A i \in 1..Len(ModuleObjects) : heap[i] = ModuleObjects[i]

\* C23: whatever calls and mutations of returned presets came before, the
\* module-level tables, band lists and policies are unchanged, a
\* quality_filter_mod09a1 call without custom_params has applied the strict
\* or the relaxed parameter set, and a preset just returned has the values
\* the first call for that preset returned
C23_ModuleStateImmutable ==
    /\ ModuleObjectsIntact
    /\ (pc = "quality_filter_mod09a1_returned" /\ custom_params = <<>>) =>
          params = IF relaxed_qa THEN RelaxedParams ELSE StrictParams
    /\ pc = "create_relaxed_filter_preset_returned" =>
          preset = first_preset[PresetKey(preset_name)]
    /\ pc = "create_comprehensive_quality_mask_returned" =>
          qa_config \in {Mod10Standard, Mod10Relaxed, CustomMod10Config}

\* a preset was returned, the caller changed it and passed it as
\* custom_params, and the same preset was then requested again
C23_Witness ==
    /\ pc = "create_relaxed_filter_preset_returned"
    /\ \E i \in (Len(ModuleObjects) + 1)..(Len(heap) - 1) :
          /\ heap[i].key = PresetKey(preset_name)
          /\ heap[i].value # preset
    /\ params \notin {<<>>, RelaxedParams, StrictParams}

\* ------------------------------------------------------------------------
\* Specification SpecWorkers: process_ren_method run on several images by
\* concurrent workers, one stage of one worker at a time
\* ------------------------------------------------------------------------

\* number of concurrent workers
NumWorkers == 2

\* a clear snow pixel and a clear ice pixel
WorkerImages ==
    { [state_1km |-> Px(q), SolarZenith |-> Px(3000), SolarAzimuth |-> Px(18000),
       SensorZenith |-> Px(3000), SensorAzimuth |-> Px(9000),
       sur_refl_b01 |-> Px(r[1]), sur_refl_b02 |-> Px(r[2]),
       sur_refl_b03 |-> Px(r[3]), sur_refl_b04 |-> Px(r[4]),
       sur_refl_b05 |-> Px(r[5]), sur_refl_b07 |-> Px(r[6])] :
        q \in {4104}, r \in { <<8500, 8000, 8800, 8600, 4000, 1000>>,
                              <<3500, 3000, 3800, 3600, 2000, 1800>> } }

\* the arguments of one process_ren_method call
WorkerInputs ==
    { [image |-> img, glacier |-> g] :
        img \in WorkerImages,
        g \in { [func |-> "threshold_mask", outlines |-> TRUE, fraction |-> 50],
                [func |-> "create_glacier_mask", outlines |-> FALSE, fraction |-> 100] } }

\* the locals of process_ren_method before its first line
WorkerStart(input) ==
    [pc |-> "quality_filter", image |-> input.image, glacier |-> input.glacier,
     relaxed_qa |-> FALSE, terrain |-> [slope |-> 3000, aspect |-> 18000],
     filtered |-> NoImage, topo_img |-> NoImage, classified |-> NoImage,
     nb_snow |-> NoImage, nb_ice |-> NoImage, with_nb |-> NoImage,
     with_bb |-> NoImage, result |-> NoImage, error |-> "none"]

\* process_ren_method keeping snow_mask in a module-level variable that
\* classification writes and the merge reads
WorkerStep_shared_snow_mask(objs, wk) ==
    LET others == SelectSeq(objs, LAMBDA o : o.key # "snow_mask")
    IN  CASE wk.pc = "quality_filter" ->
               [heap |-> objs,
                worker |-> [wk EXCEPT !.filtered =
                                quality_filter_mod09a1(wk.image, wk.relaxed_qa, <<>>),
                            !.pc = "topography_correction"]]
          [] wk.pc = "topography_correction" ->
               [heap |-> objs,
                worker |-> [wk EXCEPT !.topo_img =
                                topography_correction(wk.filtered, wk.terrain),
                            !.pc = "classify_snow_ice"]]
          [] wk.pc = "classify_snow_ice" ->
               [heap |-> Append(others, [site |-> "ren_method", key |-> "snow_mask",
                                value |-> classify_snow_ice(wk.topo_img)["snow_mask"]]),
                worker |-> [wk EXCEPT !.classified = classify_snow_ice(wk.topo_img),
                            !.pc = "brdf_snow"]]
          [] wk.pc = "brdf_snow" ->
               [heap |-> objs,
                worker |-> [wk EXCEPT !.nb_snow =
                                apply_brdf_anisotropic_correction(wk.classified, "snow"),
                            !.pc = "brdf_ice"]]
          [] wk.pc = "brdf_ice" ->
               [heap |-> objs,
                worker |-> [wk EXCEPT !.nb_ice =
                                apply_brdf_anisotropic_correction(wk.classified, "ice"),
                            !.pc = "merge"]]
          [] wk.pc = "merge" ->
               [heap |-> objs,
                worker |-> [wk EXCEPT !.with_nb =
                                MergeNarrowbands(
                                    [wk.classified EXCEPT !["snow_mask"] =
                                        ModuleObject(objs, "snow_mask")],
                                    wk.nb_snow, wk.nb_ice),
                            !.pc = "compute_broadband_albedo"]]
          [] wk.pc = "compute_broadband_albedo" ->
               [heap |-> objs,
                worker |-> [wk EXCEPT !.with_bb = compute_broadband_albedo(wk.with_nb),
                            !.pc = "glacier_mask"]]
          [] OTHER ->
               LET raw == GlacierMaskRaw(wk.glacier)
               IN  [heap |-> objs,
                    worker |-> IF raw.raised
                               THEN [wk EXCEPT !.error = "AttributeError",
                                               !.pc = "ren_failed"]
                               ELSE [wk EXCEPT !.result = ReturnedImage(wk.filtered,
                                                              wk.with_bb, raw.mask),
                                               !.pc = "ren_done"]]

\* ren_method.py 50-91, one numbered step at a time: every value a step
\* writes is a local of the call, and the module-level objects are only read
WorkerStep(objs, wk) ==
    CASE wk.pc = "quality_filter" ->
           [heap |-> objs,
            worker |-> [wk EXCEPT !.filtered =
                            quality_filter_mod09a1(wk.image, wk.relaxed_qa, <<>>),
                        !.pc = "topography_correction"]]
      [] wk.pc = "topography_correction" ->
           [heap |-> objs,
            worker |-> [wk EXCEPT !.topo_img =
                            topography_correction(wk.filtered, wk.terrain),
                        !.pc = "classify_snow_ice"]]
      [] wk.pc = "classify_snow_ice" ->
           [heap |-> objs,
            worker |-> [wk EXCEPT !.classified = classify_snow_ice(wk.topo_img),
                        !.pc = "brdf_snow"]]
      [] wk.pc = "brdf_snow" ->
           [heap |-> objs,
            worker |-> [wk EXCEPT !.nb_snow =
                            apply_brdf_anisotropic_correction(wk.classified, "snow"),
                        !.pc = "brdf_ice"]]
      [] wk.pc = "brdf_ice" ->
           [heap |-> objs,
            worker |-> [wk EXCEPT !.nb_ice =
                            apply_brdf_anisotropic_correction(wk.classified, "ice"),
                        !.pc = "merge"]]
      [] wk.pc = "merge" ->
           [heap |-> objs,
            worker |-> [wk EXCEPT !.with_nb =
                            MergeNarrowbands(wk.classified, wk.nb_snow, wk.nb_ice),
                        !.pc = "compute_broadband_albedo"]]
      [] wk.pc = "compute_broadband_albedo" ->
           [heap |-> objs,
            worker |-> [wk EXCEPT !.with_bb = compute_broadband_albedo(wk.with_nb),
                        !.pc = "glacier_mask"]]
      [] OTHER ->
           LET raw == GlacierMaskRaw(wk.glacier)
           IN  [heap |-> objs,
                worker |-> IF raw.raised
                           THEN [wk EXCEPT !.error = "AttributeError",
                                           !.pc = "ren_failed"]
                           ELSE [wk EXCEPT !.result = ReturnedImage(wk.filtered,
                                                          wk.with_bb, raw.mask),
                                           !.pc = "ren_done"]]

WorkerEnded(wk) == wk.pc \in {"ren_done", "ren_failed", "cancelled"}

InitWorkers ==
    /\ pc = "workers"
    /\ workers \in [1..NumWorkers -> { WorkerStart(i) : i \in WorkerInputs }]
    /\ heap = ModuleObjects
    /\ held_preset = 0
    /\ first_preset = <<>>
    /\ calls = 0
    /\ image = NoImage
    /\ relaxed_qa = FALSE
    /\ filtered = NoImage
    /\ error = "none"
    /\ QaIdle
    /\ RenIdle
    /\ FlowIdle
    /\ GlacierUtilIdle
    /\ ScriptIdle
    /\ ComparisonIdle
    /\ MonitorIdle

WorkersFrame == <<pc, image, relaxed_qa, filtered, error, qaVars, renVars, flowVars,
                  glacier_filtered, glacier_refiltered, held_preset, first_preset, calls,
                  scriptVars, comparisonVars, monitorVars>>

\* one worker runs the next step of its call
WorkerRuns ==
    /\ \E w \in DOMAIN workers :
          /\ ~WorkerEnded(workers[w])
          /\ LET r == WorkerStep(heap, workers[w])
             IN  /\ heap' = r.heap
                 /\ workers' = [workers EXCEPT ![w] = r.worker]
    /\ UNCHANGED WorkersFrame

\* a worker's call is cancelled between two steps: its locals are dropped
WorkerCancelled ==
    /\ \E w \in DOMAIN workers :
          /\ ~WorkerEnded(workers[w])
          /\ workers' = [workers EXCEPT ![w] =
                [WorkerStart([image |-> workers[w].image,
                              glacier |-> workers[w].glacier])
                    EXCEPT !.pc = "cancelled"]]
    /\ UNCHANGED <<WorkersFrame, heap>>

\* a worker processes its image again
WorkerRepeats ==
    /\ \E w \in DOMAIN workers :
          /\ WorkerEnded(workers[w])
          /\ workers' = [workers EXCEPT ![w] =
                WorkerStart([image |-> workers[w].image,
                             glacier |-> workers[w].glacier])]
    /\ UNCHANGED <<WorkersFrame, heap>>

NextWorkers ==
    \/ WorkerRuns
    \/ WorkerCancelled
    \/ WorkerRepeats

SpecWorkers == InitWorkers /\ [][NextWorkers]_vars

\* ------------------------------------------------------------------------
\* Properties of concurrent processing (checked under SpecWorkers)
\* ------------------------------------------------------------------------

\* the outcome of process_ren_method on the worker's image alone
AloneOutcome(wk) == process_ren_method(wk.image, wk.glacier, wk.relaxed_qa, wk.terrain)

\* C24: whatever the interleaving of the workers' stages, and whatever
\* calls were cancelled or repeated, a worker that returns an image returns
\* the image its input gives when processed alone, a worker that fails is
\* one whose input fails alone, and the module-level objects are unchanged
C24_WorkersIndependent ==
    /\ \A w \in DOMAIN workers :
          /\ workers[w].pc = "ren_done" =>
                /\ ~AloneOutcome(workers[w]).client_error
                /\ workers[w].result = AloneOutcome(workers[w]).bands
          /\ workers[w].pc = "ren_failed" => AloneOutcome(workers[w]).client_error
    /\ heap = ModuleObjects

\* a worker has returned a snow pixel's albedo and another worker, on a
\* different image, was cancelled
C24_Witness ==
    \E w, u \in DOMAIN workers :
        /\ workers[w].pc = "ren_done"
        /\ workers[w].result["snow_mask"] = Px(1)
        /\ workers[u].pc = "cancelled"
        /\ workers[u].image # workers[w].image

\* ------------------------------------------------------------------------
\* Specification SpecCollapse: scripts/reproduce_albedo_comparison.py,
\* collapse_terra_aqua on one table
\* ------------------------------------------------------------------------

\* number of rows of the input table
MaxRows == 3

\* lines 43-54
method_family(method) ==
    IF method \in {"MOD09GA", "MYD09GA"} THEN "MOD09GA"
    ELSE IF method \in {"MOD10A1", "MYD10A1"} THEN "MOD10A1"
    ELSE method

\* line 77
subset_fams == {"MOD09GA", "MOD10A1"}

\* Terra and Aqua names of both daily products, and the reference product
ScriptMethods == {"MOD09GA", "MYD09GA", "MOD10A1", "MYD10A1", "MCD43A4"}

\* every product on day 1, an Aqua MOD09GA row and the reference on day 2
InputRows ==
    [date : {1}, method : ScriptMethods, pixel_count : {3, 7}]
    \cup [date : {2}, method : {"MYD09GA", "MCD43A4"}, pixel_count : {3, 7}]

\* line 73: the family column
WithFamily(rows) ==
    [i \in 1..Len(rows) |->
        [date |-> rows[i].date, method |-> rows[i].method,
         pixel_count |-> rows[i].pixel_count, family |-> method_family(rows[i].method)]]

\* the rows of a table in increasing order of pixel_count
SortedByPixelCount_ascending(rows) ==
    \A i, j \in 1..Len(rows) : i < j => rows[i].pixel_count <= rows[j].pixel_count

\* line 74, ascending=False: no row comes before a row with a larger
\* pixel_count
SortedByPixelCount(rows) ==
    \A i, j \in 1..Len(rows) : i < j => rows[i].pixel_count >= rows[j].pixel_count

\* line 74: sort_values uses quicksort, which fixes no order between rows of
\* equal pixel_count, so every sorted arrangement of the rows is possible
SortValues(rows) ==
    { [i \in 1..Len(rows) |-> rows[p[i]]] :
        p \in { q \in [1..Len(rows) -> 1..Len(rows)] :
                   /\ \A a, b \in 1..Len(rows) : a # b => q[a] # q[b]
                   /\ SortedByPixelCount([i \in 1..Len(rows) |-> rows[q[i]]]) } }

\* lines 80-82: duplicated(subset=["date", "family"], keep="first")
Duplicated(rows, i) ==
    \E j \in 1..(i - 1) : rows[j].date = rows[i].date /\ rows[j].family = rows[i].family

\* lines 78-82
keep_mask(rows, i) == rows[i].family \notin subset_fams \/ ~Duplicated(rows, i)

\* line 83: df_sorted.loc[keep_mask]
KeptRows(rows) == SelectSeq([i \in 1..Len(rows) |-> [row |-> rows[i], keep |-> keep_mask(rows, i)]],
                            LAMBDA r : r.keep)

InitCollapse ==
    /\ pc = "collapse_terra_aqua"
    /\ df \in UNION { [1..n -> InputRows] : n \in 1..MaxRows }
    /\ df_sorted = <<>>
    /\ collapsed = <<>>
    /\ image = NoImage
    /\ relaxed_qa = FALSE
    /\ filtered = NoImage
    /\ error = "none"
    /\ QaIdle
    /\ RenIdle
    /\ FlowIdle
    /\ GlacierUtilIdle
    /\ ModuleIdle
    /\ WorkersIdle
    /\ ComparisonIdle
    /\ MonitorIdle

CollapseFrame == <<image, relaxed_qa, filtered, error, qaVars, renVars, flowVars,
                   glacier_filtered, glacier_refiltered, moduleVars, workers, df,
                   comparisonVars, monitorVars>>

\* lines 72-74
CollapseSort ==
    /\ pc = "collapse_terra_aqua"
    /\ df_sorted' \in SortValues(WithFamily(df))
    /\ pc' = "df_sorted"
    /\ UNCHANGED <<CollapseFrame, collapsed>>

\* lines 77-83
CollapseKeep ==
    /\ pc = "df_sorted"
    /\ collapsed' = [i \in 1..Len(KeptRows(df_sorted)) |-> KeptRows(df_sorted)[i].row]
    /\ pc' = "collapsed"
    /\ UNCHANGED <<CollapseFrame, df_sorted>>

NextCollapse ==
    \/ CollapseSort
    \/ CollapseKeep

SpecCollapse == InitCollapse /\ [][NextCollapse]_vars

\* ------------------------------------------------------------------------
\* Properties of collapse_terra_aqua (checked under SpecCollapse)
\* ------------------------------------------------------------------------

Collapsed == pc = "collapsed"

\* the positions of a table holding a row of this date and family
RowsOf(rows, date, family) ==
    { i \in 1..Len(rows) : rows[i].date = date /\ method_family(rows[i].method) = family }

\* how many times a row (date, method, pixel_count) occurs in a table
Occurrences(rows, r) ==
    Cardinality({ i \in 1..Len(rows) :
                     /\ rows[i].date = r.date
                     /\ rows[i].method = r.method
                     /\ rows[i].pixel_count = r.pixel_count })

\* C25: for every date and family MOD09GA or MOD10A1 present in the input
\* the returned table has exactly one row, a row of the input with the
\* largest pixel_count of that date and family; every row of another family
\* occurs in the returned table as many times as in the input
C25_CollapseKeepsLargest ==
    Collapsed =>
        /\ \A i \in 1..Len(df) :
              LET family == method_family(df[i].method)
                  kept == RowsOf(collapsed, df[i].date, family)
              IN  IF family \in subset_fams
                  THEN /\ Cardinality(kept) = 1
                       /\ \A k \in kept :
                             /\ Occurrences(df, collapsed[k]) >= 1
                             /\ \A j \in RowsOf(df, df[i].date, family) :
                                   collapsed[k].pixel_count >= df[j].pixel_count
                  ELSE Occurrences(collapsed, df[i]) = Occurrences(df, df[i])
        /\ \A k \in 1..Len(collapsed) : Occurrences(df, collapsed[k]) >= 1

\* a day with a Terra and an Aqua row of different pixel_count, the smaller
\* first in the input, together with a row of the reference product
C25_Witness ==
    /\ Collapsed
    /\ Len(df) = MaxRows
    /\ \E i, j, k \in 1..Len(df) :
          /\ i < j
          /\ df[i].date = df[j].date
          /\ df[i].method = "MOD09GA" /\ df[j].method = "MYD09GA"
          /\ df[i].pixel_count < df[j].pixel_count
          /\ df[k].method = "MCD43A4"
    /\ Len(collapsed) = MaxRows - 1


\* C26: in the comparison workflow an image whose pixel the product's
\* quality mask rejects under the policy relaxed_qa selects has that pixel
\* masked in the method's broadband albedo band
C26_ComparisonAlbedoIsQualityFiltered ==
    (pc # "run_modular_comparison" /\ processor = "comparison" /\ ~results.raised) =>
        \A i \in 1..Len(results.images) :
            LET processed == results.images[i]
                source == collection[processed.time_start]
            IN  (InvalidAfterQualityFilter(source) /\ ~processed.raised) =>
                    ~processed.bands[RobustAlbedoBand(method_name)].ok


\* ------------------------------------------------------------------------
\* Properties of the order of process_ren_method's first two stages
\* (checked under SpecRen)
\* ------------------------------------------------------------------------

\* topography_correction has returned inside process_ren_method
RenTopoComputed == pc \notin {"quality_filter", "topography_correction"}

\* some topography-corrected reflectance of the pixel is unmasked
SomeTopoBandUnmasked ==
    \E i \in 1..Len(TOPO_BANDS_ALL) : topo_img[TOPO_BANDS_ALL[i]].ok

\* C28: with the strict or the relaxed preset and no custom parameters, a
\* pixel of process_ren_method that carries an unmasked topography-corrected
\* reflectance has a solar zenith below 75 degrees (below 70 under strict),
\* and the cosine the correction factor divides by is strictly positive
C28_UnmaskedTopoHasPositiveDivisor ==
    (RenTopoComputed /\ custom_params = <<>> /\ SomeTopoBandUnmasked) =>
        /\ image["SolarZenith"].v < (IF relaxed_qa THEN 7500 ELSE 7000)
        /\ Cos(image["SolarZenith"].v) > 0

\* C28 witness: under the relaxed preset a pixel at 72 degrees keeps its
\* corrected band 1 after the quality filter and the correction
C28_Witness ==
    /\ RenTopoComputed
    /\ relaxed_qa
    /\ image["SolarZenith"] = Px(7200)
    /\ filtered["SolarZenith"].ok
    /\ topo_img["sur_refl_b01_topo"].ok


\* ------------------------------------------------------------------------
\* Properties of the by-product bands of compute_broadband_albedo
\* (checked under SpecRen)
\* ------------------------------------------------------------------------

\* the merged stack at a snow pixel: snow-model bands with the ice-model b4
SnowPixelStack ==
    [band \in {NARROWBAND_ALL[i] : i \in 1..Len(NARROWBAND_ALL)} |->
        IF band = "narrowband_b4" THEN nb_ice[band] ELSE nb_snow[band]]

\* C29: at a pixel with snow_mask true ice_albedo is the ice combination of
\* the snow-model narrow-band albedos of b1, b2, b3, b5, b7 with the ice-model
\* b4, and snow_albedo equals broadband_albedo_ren; at a pixel with snow_mask
\* false snow_albedo is the snow combination of the ice-model narrow-band
\* albedos, and ice_albedo equals broadband_albedo_ren
C29_ByproductBandsUseMergedStack ==
    BroadbandComputed =>
        LET snow_mask == classified["snow_mask"]
        IN  /\ (snow_mask.ok /\ snow_mask.v = 1) =>
                  /\ with_bb["ice_albedo"] = Px(IceCombination(SnowPixelStack))
                  /\ with_bb["snow_albedo"] = with_bb["broadband_albedo_ren"]
            /\ (snow_mask.ok /\ snow_mask.v = 0) =>
                  /\ with_bb["snow_albedo"] = Px(SnowCombination(nb_ice))
                  /\ with_bb["ice_albedo"] = with_bb["broadband_albedo_ren"]

\* C29 witness: a snow pixel whose ice_albedo differs from both the ice
\* combination of the ice-model stack and the broadband albedo
C29_Witness ==
    /\ BroadbandComputed
    /\ classified["snow_mask"] = Px(1)
    /\ with_bb["ice_albedo"].ok
    /\ with_bb["ice_albedo"] # Px(IceCombination(nb_ice))
    /\ with_bb["ice_albedo"] # with_bb["broadband_albedo_ren"]

\* C29 witness: an ice pixel whose snow_albedo differs from the broadband
\* albedo
C29_WitnessIce ==
    /\ BroadbandComputed
    /\ classified["snow_mask"] = Px(0)
    /\ with_bb["snow_albedo"].ok
    /\ with_bb["snow_albedo"] # with_bb["broadband_albedo_ren"]

\* ------------------------------------------------------------------------
\* Specification SpecMonitor: monitor_export_tasks polling the tasks that
\* export_to_drive started, while Earth Engine runs them
\* ------------------------------------------------------------------------

\* the most tasks monitored
MaxTasks == 2

\* the states a started task can move to at Earth Engine; COMPLETED, FAILED
\* and CANCELLED are final
TaskSuccessors(state) ==
    CASE state = "READY" -> {"RUNNING", "CANCEL_REQUESTED"}
      [] state = "RUNNING" -> {"COMPLETED", "FAILED", "CANCEL_REQUESTED"}
      [] state = "CANCEL_REQUESTED" -> {"CANCELLED"}
      [] OTHER -> {}

\* all_complete decided by the task polled last
RoundFlag_last_task(flag, state) == state \notin {"RUNNING", "READY"}

\* export_utils.py 400-401: all_complete after a task reported state
RoundFlag(flag, state) ==
    IF state \in {"RUNNING", "READY"} THEN FALSE ELSE flag

\* export_utils.py 251-258: every task handed over was started
InitMonitor ==
    /\ pc = "poll"
    /\ tasks \in UNION { [1..n -> {"READY"}] : n \in 0..MaxTasks }
    /\ task_index = 0
    /\ all_complete = TRUE
    /\ observed = <<>>
    /\ image = NoImage
    /\ relaxed_qa = FALSE
    /\ filtered = NoImage
    /\ error = "none"
    /\ QaIdle
    /\ RenIdle
    /\ FlowIdle
    /\ GlacierUtilIdle
    /\ ModuleIdle
    /\ WorkersIdle
    /\ ScriptIdle
    /\ ComparisonIdle

MonitorFrame == <<image, relaxed_qa, filtered, error, qaVars, renVars, flowVars,
                  glacier_filtered, glacier_refiltered, moduleVars, workers,
                  scriptVars, comparisonVars>>

\* Earth Engine moves one task to a next state
TaskAdvances ==
    /\ \E i \in 1..Len(tasks) :
          \E next_state \in TaskSuccessors(tasks[i]) :
              tasks' = [tasks EXCEPT ![i] = next_state]
    /\ UNCHANGED <<pc, task_index, all_complete, observed, MonitorFrame>>

\* lines 396-401: one iteration of the loop over the tasks
PollTask ==
    /\ pc = "poll"
    /\ task_index < Len(tasks)
    /\ LET state == tasks[task_index + 1]
       IN  /\ observed' = Append(observed, state)
           /\ all_complete' = RoundFlag(all_complete, state)
    /\ task_index' = task_index + 1
    /\ UNCHANGED <<pc, tasks, MonitorFrame>>

\* lines 403-405: the round is over and nothing was pending
MonitorReturns ==
    /\ pc = "poll"
    /\ task_index = Len(tasks)
    /\ all_complete
    /\ pc' = "monitor_returned"
    /\ UNCHANGED <<tasks, task_index, all_complete, observed, MonitorFrame>>

\* lines 407-408: the round is over with a task pending; sleep
MonitorSleeps ==
    /\ pc = "poll"
    /\ task_index = Len(tasks)
    /\ ~all_complete
    /\ pc' = "sleep"
    /\ UNCHANGED <<tasks, task_index, all_complete, observed, MonitorFrame>>

\* lines 393-394: the sleep ends and the next round starts
MonitorNextRound ==
    /\ pc = "sleep"
    /\ pc' = "poll"
    /\ task_index' = 0
    /\ all_complete' = TRUE
    /\ observed' = <<>>
    /\ UNCHANGED <<tasks, MonitorFrame>>

\* the steps of monitor_export_tasks itself
MonitorStep ==
    \/ PollTask
    \/ MonitorReturns
    \/ MonitorSleeps
    \/ MonitorNextRound

NextMonitor ==
    \/ TaskAdvances
    \/ PollTask
    \/ MonitorReturns
    \/ MonitorSleeps
    \/ MonitorNextRound

\* the function keeps running: status() answers and sleep() ends; nothing
\* obliges Earth Engine to move a task
SpecMonitor == InitMonitor /\ [][NextMonitor]_vars /\ WF_vars(MonitorStep)

\* a task is pending (READY) or executing (RUNNING)
TaskPending(i) == tasks[i] \in {"READY", "RUNNING"}

\* the round that ended polled every task and printed no RUNNING or READY
RoundSawNoPending ==
    /\ Len(observed) = Len(tasks)
    /\ \A k \in 1..Len(observed) : observed[k] \notin {"RUNNING", "READY"}

\* every task has left RUNNING and READY
AllTasksSettled == \A i \in 1..Len(tasks) : ~TaskPending(i)

MonitorReturned == pc = "monitor_returned"

\* C30: monitor_export_tasks returns only after a round that observed no
\* RUNNING or READY task, at and after its return no task is pending or
\* executing, and if the tasks leave RUNNING and READY for good it returns
C30_MonitorReturnsWhenTasksSettle ==
    /\ [](MonitorReturned => (RoundSawNoPending /\ AllTasksSettled))
    /\ (<>[]AllTasksSettled) => <>MonitorReturned

\* C30 witness: the monitor has returned after a round that saw the first of
\* two tasks completed and the other failed
C30_Witness ==
    /\ MonitorReturned
    /\ Len(tasks) = MaxTasks
    /\ observed[1] = "COMPLETED"
    /\ \E k \in 1..Len(observed) : observed[k] = "FAILED"

====
